---- MODULE Spec2Model ----
(***************************************************************************)
(* Model of the GPU-fragmentation estimator and the target-workload        *)
(* distiller of kubernetes-scheduler-simulator (pkg/utils/frag.go), of the *)
(* PWR score plugin (pkg/simulator/plugin/pwr_score.go) and of the pod     *)
(* ordering queues (pkg/algo).                                             *)
(*                                                                         *)
(* float64 quantities (percentages, weighted counts, fragment amounts) are *)
(* modelled as exact rationals [n, d] in lowest terms with d > 0; float    *)
(* rounding is not modelled.  A pod is modelled by the PodResource that    *)
(* GetPodResource extracts from it.  Log output is not modelled.           *)
(***************************************************************************)
EXTENDS Integers, Sequences, FiniteSets, TLC

VARIABLES
    nodeRes,      \* simontype.NodeResource the estimator is applied to
    podRes,       \* simontype.PodResource the estimator is applied to
    typicalPods,  \* simontype.TargetPodList handed to the estimator
    skylinePods,  \* simontype.SkylinePodList handed to the estimator
    allPods,      \* the workload handed to the distiller ([]*v1.Pod as PodResources)
    config,       \* v1alpha1.TypicalPodsConfig
    pc,           \* position inside the call in progress (per scorer where there are several)
    loc,          \* locals of the call in progress (per scorer where there are several)
    ret,          \* the last call and the value it returned
    dp,           \* the Bellman memo (*sync.Map): node signature -> float64
    nodes,        \* the node resource table: node name -> NodeResource
    placed,       \* the placements: pod name -> node and GPU indexes
    queue         \* the pod list handed to the ordering queues and the pipeline

clusterVars == <<dp, nodes, placed, queue>>

vars ==
    <<nodeRes, podRes, typicalPods, skylinePods, allPods, config, pc, loc, ret,
      dp, nodes, placed, queue>>

----------------------------------------------------------------------------
(* Bounds of the model *)

MaxGpus == 2
MaxTypical == 2
MaxSkyline == 2
MaxPods == 3
MaxPodResNum == 8

----------------------------------------------------------------------------
(* Constants of the program *)

Q1LackBoth == "q1_lack_both"
Q2LackGpu == "q2_lack_gpu"
Q3Satisfied == "q3_satisfied"
Q4LackCpu == "q4_lack_cpu"
XLSatisfied == "xl_satisfied"
XRLackCPU == "xr_lack_cpu"
NoAccess == "no_access"

FragRatioDataMap ==
    [c \in {Q1LackBoth, Q2LackGpu, Q3Satisfied, Q4LackCpu, XLSatisfied, XRLackCPU, NoAccess} |->
        CASE c = Q1LackBoth -> 0
          [] c = Q2LackGpu -> 1
          [] c = Q3Satisfied -> 2
          [] c = Q4LackCpu -> 3
          [] c = XLSatisfied -> 4
          [] c = XRLackCPU -> 5
          [] c = NoAccess -> 6]

MILLI == 1000

DefaultTypicalPodPopularityThreshold == 60
DefaultTypicalPodIncreaseStep == 1

----------------------------------------------------------------------------
(* Input domains *)

GpuLeftValues == {0, 300, 600, 1000}
CpuLeftValues == {0, 2000}
NodeGpuTypes == {"V100", "A100"}

PodCpuValues == {0, 1000, 3000}
PodGpuValues == {0, 500, 1000}
PodGpuNumbers == {0, 1, 2}
PodGpuTypes == {"", "A100"}

GpuLists == UNION {[1..n -> GpuLeftValues] : n \in 0..MaxGpus}

NodeResources ==
    [MilliCpuLeft : CpuLeftValues, MilliGpuLeftList : GpuLists, GpuType : NodeGpuTypes]

PodResources ==
    [MilliCpu : PodCpuValues, MilliGpu : PodGpuValues, GpuNumber : PodGpuNumbers,
     GpuType : PodGpuTypes]

----------------------------------------------------------------------------
(* float64 arithmetic, as exact rationals *)

RECURSIVE GCD(_, _)
GCD(a, b) == IF b = 0 THEN a ELSE GCD(b, a % b)

Abs(x) == IF x < 0 THEN -x ELSE x

Rat(n, d) ==
    LET g == GCD(Abs(n), Abs(d))
    IN  IF d < 0 THEN [n |-> (-n) \div g, d |-> (-d) \div g]
        ELSE [n |-> n \div g, d |-> d \div g]

RInt(k) == [n |-> k, d |-> 1]
RAdd(x, y) == Rat(x.n * y.d + y.n * x.d, x.d * y.d)
RSub(x, y) == Rat(x.n * y.d - y.n * x.d, x.d * y.d)
RMul(x, y) == Rat(x.n * y.n, x.d * y.d)
RDiv(x, y) == Rat(x.n * y.d, x.d * y.n)
RLess(x, y) == x.n * y.d < y.n * x.d
RAbs(x) == [n |-> Abs(x.n), d |-> x.d]

----------------------------------------------------------------------------
(* Input domains of the estimator applied to a list of pods *)

AmountGpuLeftValues == {300, 1000}
AmountGpuLists == UNION {[1..n -> AmountGpuLeftValues] : n \in 0..MaxGpus}
AmountNodes ==
    [MilliCpuLeft : CpuLeftValues, MilliGpuLeftList : AmountGpuLists, GpuType : {"V100"}]

\* CPU-only, GPU-share, two whole GPUs, a share of another GPU model, and a
\* request of GPU millis that names no GPU.
ListedPods ==
    { [MilliCpu |-> 1000, MilliGpu |-> 0, GpuNumber |-> 0, GpuType |-> ""],
      [MilliCpu |-> 1000, MilliGpu |-> 500, GpuNumber |-> 1, GpuType |-> ""],
      [MilliCpu |-> 3000, MilliGpu |-> 1000, GpuNumber |-> 2, GpuType |-> ""],
      [MilliCpu |-> 0, MilliGpu |-> 500, GpuNumber |-> 1, GpuType |-> "A100"],
      [MilliCpu |-> 1000, MilliGpu |-> 500, GpuNumber |-> 0, GpuType |-> ""] }

Percentages == {Rat(-1, 2), Rat(1, 4), Rat(1, 1), Rat(3, 2)}

TargetPods == [TargetPodResource : ListedPods, Percentage : Percentages]
TargetPodLists == UNION {[1..n -> TargetPods] : n \in 0..MaxTypical}
SkylinePodLists == UNION {[1..n -> ListedPods] : n \in 0..MaxSkyline}

----------------------------------------------------------------------------
(* Input domains of the distiller *)

CpuOnlyPod == [MilliCpu |-> 1000, MilliGpu |-> 0, GpuNumber |-> 0, GpuType |-> ""]
OneGpuPod == [MilliCpu |-> 1000, MilliGpu |-> 1000, GpuNumber |-> 1, GpuType |-> ""]
ShareGpuPod == [MilliCpu |-> 2000, MilliGpu |-> 500, GpuNumber |-> 1, GpuType |-> ""]
TwoGpuPod == [MilliCpu |-> 3000, MilliGpu |-> 1000, GpuNumber |-> 2, GpuType |-> ""]

WorkloadPods == {CpuOnlyPod, OneGpuPod, ShareGpuPod, TwoGpuPod}

\* Ten identical CPU-only pods followed by five identical full-GPU pods.
ScenarioWorkload == [k \in 1..15 |-> IF k <= 10 THEN CpuOnlyPod ELSE OneGpuPod]

Workloads == UNION {[1..n -> WorkloadPods] : n \in 0..MaxPods} \cup {ScenarioWorkload}

\* Pods of the workloads handed to GetSkylinePods: every (milliCpu, milliGpu)
\* point, with one GPU for a GPU pod, and two whole-GPU pods asking for two GPUs.
SkylineWorkloadPods ==
    { [MilliCpu |-> c, MilliGpu |-> g, GpuNumber |-> IF g = 0 THEN 0 ELSE 1, GpuType |-> ""] :
          c \in {1000, 2000, 3000}, g \in {0, 500, 1000} }
    \cup { [MilliCpu |-> c, MilliGpu |-> 1000, GpuNumber |-> 2, GpuType |-> ""] :
              c \in {1000, 2000} }

SkylineWorkloads == UNION {[1..n -> SkylineWorkloadPods] : n \in 0..MaxPods}

TypicalPodsConfigs ==
    [IsInvolvedCpuPods : BOOLEAN, GpuResWeight : {-1, 0, 2},
     PodPopularityThreshold : {0, 50, 100, 150}, PodIncreaseStep : {0, 1, 2}]

NoNode == [MilliCpuLeft |-> 0, MilliGpuLeftList |-> <<>>, GpuType |-> ""]
NoPod == [MilliCpu |-> 0, MilliGpu |-> 0, GpuNumber |-> 0, GpuType |-> ""]
NoConfig ==
    [IsInvolvedCpuPods |-> FALSE, GpuResWeight |-> 0, PodPopularityThreshold |-> 0,
     PodIncreaseStep |-> 0]
NoLoc == [tgtPodList |-> <<>>, total |-> 0, i |-> 0, podResNum |-> 0, cumNumPods |-> 0]
NoRet == [op |-> "none", val |-> "none"]

EmptyMemo == [x \in {} |-> 0]
NoNodes == [x \in {} |-> 0]
NoPlaced == [x \in {} |-> 0]

\* No memo, no cluster and no queue: the state of the specifications that
\* apply the estimator or the distiller alone.
NoCluster ==
    /\ dp = EmptyMemo
    /\ nodes = NoNodes
    /\ placed = NoPlaced
    /\ queue = <<>>

----------------------------------------------------------------------------
(* pkg/utils/frag.go: the fragmentation estimator *)

RECURSIVE CanHostLoop(_, _, _, _)
CanHostLoop(list, k, milliGpu, gpuRequest) ==
    IF k > Len(list) THEN FALSE
    ELSE IF list[k] >= milliGpu
         THEN IF gpuRequest - 1 <= 0 THEN TRUE
              ELSE CanHostLoop(list, k + 1, milliGpu, gpuRequest - 1)
         ELSE CanHostLoop(list, k + 1, milliGpu, gpuRequest)

CanNodeHostPodOnGpuMemory(n, p) ==
    CanHostLoop(n.MilliGpuLeftList, 1, p.MilliGpu, p.GpuNumber)

IsNodeAccessibleToPod(n, p) ==
    /\ (p.GpuType = "" \/ p.GpuType = n.GpuType)
    /\ (CanNodeHostPodOnGpuMemory(n, p) \/ p.GpuNumber = 0 \/ p.MilliGpu = 0)

\* GetNodePodFrag with the accessibility test moved after the capacity test.
GetNodePodFragCapacityFirst(n, p) ==
    IF p.MilliGpu = 0
    THEN IF n.MilliCpuLeft >= p.MilliCpu THEN XLSatisfied ELSE XRLackCPU
    ELSE IF CanNodeHostPodOnGpuMemory(n, p)
         THEN IF n.MilliCpuLeft >= p.MilliCpu THEN Q3Satisfied ELSE Q4LackCpu
         ELSE IF IsNodeAccessibleToPod(n, p) = FALSE THEN NoAccess
         ELSE IF n.MilliCpuLeft >= p.MilliCpu THEN Q2LackGpu ELSE Q1LackBoth

GetNodePodFrag(n, p) ==
    IF p.MilliGpu = 0
    THEN IF n.MilliCpuLeft >= p.MilliCpu THEN XLSatisfied ELSE XRLackCPU
    ELSE IF IsNodeAccessibleToPod(n, p) = FALSE THEN NoAccess
    ELSE IF CanNodeHostPodOnGpuMemory(n, p)
         THEN IF n.MilliCpuLeft >= p.MilliCpu THEN Q3Satisfied ELSE Q4LackCpu
         ELSE IF n.MilliCpuLeft >= p.MilliCpu THEN Q2LackGpu ELSE Q1LackBoth

NewFragAmount == [k \in 0..6 |-> RInt(0)]

\* FragAmount.AddByFragType: the data after the call (unchanged on an error).
AddByFragType(data, fragType, amount) ==
    IF RLess(amount, RInt(0)) THEN data
    ELSE IF fragType \notin DOMAIN FragRatioDataMap THEN data
    ELSE [data EXCEPT ![FragRatioDataMap[fragType]] = RAdd(@, amount)]

RECURSIVE GpuMilliLeftTotalLoop(_, _)
GpuMilliLeftTotalLoop(list, k) ==
    IF k > Len(list) THEN 0 ELSE list[k] + GpuMilliLeftTotalLoop(list, k + 1)

GetGpuMilliLeftTotal(n) == GpuMilliLeftTotalLoop(n.MilliGpuLeftList, 1)

RECURSIVE GpuFragMilliLoop(_, _, _)
GpuFragMilliLoop(list, k, milliGpu) ==
    IF k > Len(list) THEN 0
    ELSE (IF list[k] < milliGpu THEN list[k] ELSE 0) + GpuFragMilliLoop(list, k + 1, milliGpu)

\* GetGpuFragMilliByNodeResAndPodRes counting the GPUs that can still serve the pod.
GetGpuFragMilliOfUsableGpus(n, p) ==
    GetGpuMilliLeftTotal(n) - GpuFragMilliLoop(n.MilliGpuLeftList, 1, p.MilliGpu)

GetGpuFragMilliByNodeResAndPodRes(n, p) ==
    GpuFragMilliLoop(n.MilliGpuLeftList, 1, p.MilliGpu)

RECURSIVE ShareFragAmountLoop(_, _, _, _)
ShareFragAmountLoop(n, pods, k, data) ==
    IF k > Len(pods) THEN data
    ELSE LET pod == pods[k]
             freq == pod.Percentage
         IN  IF RLess(freq, RInt(0)) \/ RLess(RInt(1), freq)
             THEN ShareFragAmountLoop(n, pods, k + 1, data)
             ELSE LET fragType == GetNodePodFrag(n, pod.TargetPodResource)
                      gpuMilliLeftTotal == GetGpuMilliLeftTotal(n)
                  IN  IF fragType = Q3Satisfied
                      THEN LET gpuFragMilli ==
                                   GetGpuFragMilliByNodeResAndPodRes(n, pod.TargetPodResource)
                               d1 == AddByFragType(data, Q2LackGpu,
                                                   RMul(freq, RInt(gpuFragMilli)))
                               d2 == AddByFragType(d1, Q3Satisfied,
                                        RMul(freq, RInt(gpuMilliLeftTotal - gpuFragMilli)))
                           IN  ShareFragAmountLoop(n, pods, k + 1, d2)
                      ELSE ShareFragAmountLoop(n, pods, k + 1,
                               AddByFragType(data, fragType,
                                             RMul(freq, RInt(gpuMilliLeftTotal))))

NodeGpuShareFragAmount(n, pods) == ShareFragAmountLoop(n, pods, 1, NewFragAmount)

RECURSIVE SkylineLoop(_, _, _)
SkylineLoop(n, pods, k) ==
    IF k > Len(pods) THEN GetGpuMilliLeftTotal(n)
    ELSE IF n.MilliCpuLeft >= pods[k].MilliCpu /\ CanNodeHostPodOnGpuMemory(n, pods[k])
         THEN 0
         ELSE SkylineLoop(n, pods, k + 1)

\* NodeGpuFragBasedOnSkyline that only tries the first skyline pod.
NodeGpuFragBasedOnFirstSkylinePod(n, pods) ==
    SkylineLoop(n, IF Len(pods) = 0 THEN pods ELSE <<pods[1]>>, 1)

NodeGpuFragBasedOnSkyline(n, pods) == SkylineLoop(n, pods, 1)

----------------------------------------------------------------------------
(* pkg/utils/frag.go: the workload distiller *)

\* The weight of frag.go:298-303 without the leading 1.
WeightedCntWithoutOne(p, cfg) ==
    IF cfg.GpuResWeight > 0 /\ p.MilliGpu = MILLI THEN p.GpuNumber * cfg.GpuResWeight ELSE 1

WeightedCnt(p, cfg) ==
    IF cfg.GpuResWeight > 0 /\ p.MilliGpu = MILLI THEN 1 + p.GpuNumber * cfg.GpuResWeight ELSE 1

\* The aggregation loop without the test of frag.go:294 that skips CPU-only pods.
RECURSIVE CountLoopAllPods(_, _, _, _, _)
CountLoopAllPods(pods, k, cfg, map, total) ==
    IF k > Len(pods) THEN [map |-> map, total |-> total]
    ELSE LET tgtPodRes == pods[k]
             weightedCnt == RInt(WeightedCnt(tgtPodRes, cfg))
             map2 == IF tgtPodRes \in DOMAIN map
                     THEN [map EXCEPT ![tgtPodRes] = RAdd(@, weightedCnt)]
                     ELSE map @@ (tgtPodRes :> weightedCnt)
         IN  CountLoopAllPods(pods, k + 1, cfg, map2, RAdd(total, weightedCnt))

\* The aggregation loop of frag.go:292-310: [map, total] after pods k.. are added.
RECURSIVE CountLoop(_, _, _, _, _)
CountLoop(pods, k, cfg, map, total) ==
    IF k > Len(pods) THEN [map |-> map, total |-> total]
    ELSE LET tgtPodRes == pods[k]
         IN  IF ~cfg.IsInvolvedCpuPods /\ tgtPodRes.GpuNumber = 0
             THEN CountLoop(pods, k + 1, cfg, map, total)
             ELSE LET weightedCnt == RInt(WeightedCnt(tgtPodRes, cfg))
                      map2 == IF tgtPodRes \in DOMAIN map
                              THEN [map EXCEPT ![tgtPodRes] = RAdd(@, weightedCnt)]
                              ELSE map @@ (tgtPodRes :> weightedCnt)
                  IN  CountLoop(pods, k + 1, cfg, map2, RAdd(total, weightedCnt))

EmptyMap == [x \in {} |-> RInt(0)]

\* TargetPodList.Less
TargetPodLess(a, b) == RLess(a.Percentage, b.Percentage)

\* All the orders in which the entries of the map can be laid out so that
\* sort.Sort(sort.Reverse(pl)) is satisfied: the map is ranged over in an
\* unspecified order and sort.Sort is not stable.
SortTargetPodInDecreasingCount(tgtPodResMap) ==
    LET n == Cardinality(DOMAIN tgtPodResMap)
    IN  { pl \in [1..n -> [TargetPodResource : DOMAIN tgtPodResMap,
                           Percentage : {tgtPodResMap[k] : k \in DOMAIN tgtPodResMap}]] :
            /\ \A a \in 1..n : pl[a].Percentage = tgtPodResMap[pl[a].TargetPodResource]
            /\ \A a, b \in 1..n : a # b => pl[a].TargetPodResource # pl[b].TargetPodResource
            /\ \A a, b \in 1..n : a < b => ~TargetPodLess(pl[a], pl[b]) }

\* expectedNumPods always taken from the default threshold.
ExpectedNumPodsDefaultOnly(cfg, total) ==
    RDiv(RMul(RInt(DefaultTypicalPodPopularityThreshold), total), RInt(100))

ExpectedNumPods(cfg, total) ==
    IF cfg.PodPopularityThreshold > 0
    THEN RDiv(RMul(RInt(cfg.PodPopularityThreshold), total), RInt(100))
    ELSE RDiv(RMul(RInt(DefaultTypicalPodPopularityThreshold), total), RInt(100))

\* The inner loop of frag.go:351-359.
RECURSIVE GrowLoop(_)
GrowLoop(l) ==
    IF l.i < l.podResNum /\ l.i < Len(l.tgtPodList)
    THEN LET numPods == l.tgtPodList[l.i + 1].Percentage
         IN  GrowLoop([l EXCEPT !.cumNumPods = RAdd(@, numPods),
                               !.tgtPodList[l.i + 1].Percentage = RDiv(@, l.total),
                               !.i = @ + 1])
    ELSE l

\* The renormalisation of frag.go:371-374 dividing by cumNumPods alone.
ChopDividingByCount(l) ==
    [j \in 1..l.i |->
        [l.tgtPodList[j] EXCEPT !.Percentage = RDiv(@, l.cumNumPods)]]

\* frag.go:368-378: the first i entries, renormalised.
Chop(l) ==
    [j \in 1..l.i |->
        [l.tgtPodList[j] EXCEPT !.Percentage = RDiv(@, RDiv(l.cumNumPods, l.total))]]

\* The less function of frag.go:389-397.
SkylineLess(a, b) ==
    IF a.MilliCpu < b.MilliCpu THEN TRUE
    ELSE IF a.MilliCpu = b.MilliCpu THEN a.MilliGpu < b.MilliGpu
    ELSE FALSE

\* sort.SliceStable: x goes behind every element that is not greater than it.
RECURSIVE InsertStable(_, _)
InsertStable(sorted, x) ==
    IF sorted = <<>> THEN <<x>>
    ELSE IF SkylineLess(x, sorted[Len(sorted)])
         THEN Append(InsertStable(SubSeq(sorted, 1, Len(sorted) - 1), x), sorted[Len(sorted)])
         ELSE Append(sorted, x)

RECURSIVE SliceStable(_, _, _)
SliceStable(list, k, sorted) ==
    IF k > Len(list) THEN sorted
    ELSE SliceStable(list, k + 1, InsertStable(sorted, list[k]))

\* The sweep of frag.go:398-403 testing the CPU alone.
RECURSIVE SkylineSweepCpuOnly(_, _, _)
SkylineSweepCpuOnly(podResList, k, sky) ==
    IF k > Len(podResList) THEN sky
    ELSE LET p == podResList[k]
             num == Len(sky)
         IN  IF num = 0 \/ p.MilliCpu > sky[num].MilliCpu
             THEN SkylineSweepCpuOnly(podResList, k + 1, Append(sky, p))
             ELSE SkylineSweepCpuOnly(podResList, k + 1, sky)

\* The sweep of frag.go:398-403.
RECURSIVE SkylineSweep(_, _, _)
SkylineSweep(podResList, k, sky) ==
    IF k > Len(podResList) THEN sky
    ELSE LET p == podResList[k]
             num == Len(sky)
         IN  IF num = 0 \/ (p.MilliCpu > sky[num].MilliCpu /\ p.MilliGpu < sky[num].MilliGpu)
             THEN SkylineSweep(podResList, k + 1, Append(sky, p))
             ELSE SkylineSweep(podResList, k + 1, sky)

GetSkylinePods(pods) == SkylineSweep(SliceStable(pods, 1, <<>>), 1, <<>>)

----------------------------------------------------------------------------
(* Specification SpecTypical: a workload and a configuration are drawn and *)
(* GetTypicalPods is applied to them, once or repeatedly.                  *)

InitTypical ==
    /\ nodeRes = NoNode
    /\ podRes = NoPod
    /\ typicalPods = <<>>
    /\ skylinePods = <<>>
    /\ allPods \in Workloads
    /\ config \in TypicalPodsConfigs
    /\ pc = "idle"
    /\ loc = NoLoc
    /\ ret = NoRet
    /\ NoCluster

\* frag.go:285-344: aggregate the workload, sort the shapes, set up the loop.
GetTypicalPodsBegin ==
    /\ pc = "idle"
    /\ LET agg == CountLoop(allPods, 1, config, EmptyMap, RInt(0))
       IN  \E pl \in SortTargetPodInDecreasingCount(agg.map) :
               loc' = [tgtPodList |-> pl, total |-> agg.total, i |-> 0, podResNum |-> 0,
                       cumNumPods |-> RInt(0)]
    /\ pc' = "loop"
    /\ UNCHANGED <<clusterVars, nodeRes, podRes, typicalPods, skylinePods, allPods, config, ret>>

\* frag.go:345-360: one round of the prefix-growing loop.
GetTypicalPodsGrow ==
    /\ pc = "loop"
    /\ RLess(loc.cumNumPods, ExpectedNumPods(config, loc.total))
    /\ loc.podResNum < MaxPodResNum
    /\ loc' = GrowLoop([loc EXCEPT !.podResNum =
                           IF config.PodIncreaseStep > 0
                           THEN @ + config.PodIncreaseStep
                           ELSE @ + DefaultTypicalPodIncreaseStep])
    /\ UNCHANGED <<clusterVars, nodeRes, podRes, typicalPods, skylinePods, allPods, config, pc, ret>>

\* frag.go:362-380: return the whole list or the renormalised prefix.
GetTypicalPodsReturn ==
    /\ pc = "loop"
    /\ ~RLess(loc.cumNumPods, ExpectedNumPods(config, loc.total))
    /\ ret' = [op |-> "GetTypicalPods",
               val |-> IF loc.i >= Len(loc.tgtPodList) THEN loc.tgtPodList ELSE Chop(loc)]
    /\ pc' = "done"
    /\ UNCHANGED <<clusterVars, nodeRes, podRes, typicalPods, skylinePods, allPods, config, loc>>

NextTypical ==
    \/ GetTypicalPodsBegin
    \/ GetTypicalPodsGrow
    \/ GetTypicalPodsReturn

SpecTypical == InitTypical /\ [][NextTypical]_vars

----------------------------------------------------------------------------
(* Specification SpecTypicalTwice: as SpecTypical, and GetTypicalPods may  *)
(* be applied again to the same workload and configuration after it has    *)
(* returned.                                                               *)

GetTypicalPodsAgain ==
    /\ pc = "done"
    /\ LET agg == CountLoop(allPods, 1, config, EmptyMap, RInt(0))
       IN  \E pl \in SortTargetPodInDecreasingCount(agg.map) :
               loc' = [tgtPodList |-> pl, total |-> agg.total, i |-> 0, podResNum |-> 0,
                       cumNumPods |-> RInt(0)]
    /\ pc' = "loop"
    /\ UNCHANGED <<clusterVars, nodeRes, podRes, typicalPods, skylinePods, allPods, config, ret>>

NextTypicalTwice ==
    \/ GetTypicalPodsBegin
    \/ GetTypicalPodsGrow
    \/ GetTypicalPodsReturn
    \/ GetTypicalPodsAgain

SpecTypicalTwice == InitTypical /\ [][NextTypicalTwice]_vars

----------------------------------------------------------------------------
(* Specification SpecSkyline: a workload is drawn and GetSkylinePods is    *)
(* applied to it; the skyline is kept for the estimator.                   *)

InitSkyline ==
    /\ nodeRes = NoNode
    /\ podRes = NoPod
    /\ typicalPods = <<>>
    /\ skylinePods = <<>>
    /\ allPods \in SkylineWorkloads
    /\ config = NoConfig
    /\ pc = "idle"
    /\ loc = NoLoc
    /\ ret = NoRet
    /\ NoCluster

GetSkylinePodsCall ==
    /\ ret' = [op |-> "GetSkylinePods", val |-> GetSkylinePods(allPods)]
    /\ skylinePods' = GetSkylinePods(allPods)
    /\ UNCHANGED <<clusterVars, nodeRes, podRes, typicalPods, allPods, config, pc, loc>>

NextSkyline == GetSkylinePodsCall

SpecSkyline == InitSkyline /\ [][NextSkyline]_vars

----------------------------------------------------------------------------
(* Specification SpecFrag: a node and a pod are drawn, then GetNodePodFrag *)
(* and CanNodeHostPodOnGpuMemory are applied to them.                      *)

InitFrag ==
    /\ nodeRes \in NodeResources
    /\ podRes \in PodResources
    /\ typicalPods = <<>>
    /\ skylinePods = <<>>
    /\ allPods = <<>>
    /\ config = NoConfig
    /\ pc = "idle"
    /\ loc = NoLoc
    /\ ret = NoRet
    /\ NoCluster

GetNodePodFragCall ==
    /\ ret' = [op |-> "GetNodePodFrag", val |-> GetNodePodFrag(nodeRes, podRes)]
    /\ UNCHANGED <<clusterVars, nodeRes, podRes, typicalPods, skylinePods, allPods, config, pc, loc>>

CanNodeHostPodOnGpuMemoryCall ==
    /\ ret' = [op |-> "CanNodeHostPodOnGpuMemory",
               val |-> CanNodeHostPodOnGpuMemory(nodeRes, podRes)]
    /\ UNCHANGED <<clusterVars, nodeRes, podRes, typicalPods, skylinePods, allPods, config, pc, loc>>

NextFrag ==
    \/ GetNodePodFragCall
    \/ CanNodeHostPodOnGpuMemoryCall

SpecFrag == InitFrag /\ [][NextFrag]_vars

----------------------------------------------------------------------------
(* Specification SpecAmount: a node and a list of pods (a typical-pod list *)
(* or a skyline) are drawn, then the per-node estimators are applied.      *)

InitAmount ==
    /\ nodeRes \in AmountNodes
    /\ podRes = NoPod
    /\ \/ typicalPods \in TargetPodLists /\ skylinePods = <<>>
       \/ typicalPods = <<>> /\ skylinePods \in SkylinePodLists
    /\ allPods = <<>>
    /\ config = NoConfig
    /\ pc = "idle"
    /\ loc = NoLoc
    /\ ret = NoRet
    /\ NoCluster

NodeGpuShareFragAmountCall ==
    /\ ret' = [op |-> "NodeGpuShareFragAmount",
               val |-> NodeGpuShareFragAmount(nodeRes, typicalPods)]
    /\ UNCHANGED <<clusterVars, nodeRes, podRes, typicalPods, skylinePods, allPods, config, pc, loc>>

NodeGpuFragBasedOnSkylineCall ==
    /\ ret' = [op |-> "NodeGpuFragBasedOnSkyline",
               val |-> NodeGpuFragBasedOnSkyline(nodeRes, skylinePods)]
    /\ UNCHANGED <<clusterVars, nodeRes, podRes, typicalPods, skylinePods, allPods, config, pc, loc>>

NextAmount ==
    \/ NodeGpuShareFragAmountCall
    \/ NodeGpuFragBasedOnSkylineCall

SpecAmount == InitAmount /\ [][NextAmount]_vars

----------------------------------------------------------------------------
(* Claims about the estimator *)

FragCategories ==
    {Q1LackBoth, Q2LackGpu, Q3Satisfied, Q4LackCpu, XLSatisfied, XRLackCPU, NoAccess}

\* Number of GPUs of node n with at least milliGpu left.
GpusWithAtLeast(n, milliGpu) ==
    Cardinality({k \in DOMAIN n.MilliGpuLeftList : n.MilliGpuLeftList[k] >= milliGpu})

GpuTypeMatches(n, p) == p.GpuType = "" \/ p.GpuType = n.GpuType

(* C1: GetNodePodFrag returns exactly one of the seven categories, the one  *)
(* the decision tree selects: CPU-only pods get XLSatisfied / XRLackCPU by  *)
(* the CPU test; GPU pods get NoAccess when the node is not accessible,     *)
(* else Q3Satisfied / Q4LackCpu when the GPUs can host the pod, else        *)
(* Q2LackGpu / Q1LackBoth.                                                  *)
C1_FragDecisionTree ==
    ret.op = "GetNodePodFrag" =>
        LET cpuFits == nodeRes.MilliCpuLeft >= podRes.MilliCpu
            gpuPod == podRes.MilliGpu # 0
            access == IsNodeAccessibleToPod(nodeRes, podRes)
            host == CanNodeHostPodOnGpuMemory(nodeRes, podRes)
        IN  /\ ret.val \in FragCategories
            /\ (ret.val = XLSatisfied) <=> (~gpuPod /\ cpuFits)
            /\ (ret.val = XRLackCPU) <=> (~gpuPod /\ ~cpuFits)
            /\ (ret.val = NoAccess) <=> (gpuPod /\ ~access)
            /\ (ret.val = Q3Satisfied) <=> (gpuPod /\ access /\ host /\ cpuFits)
            /\ (ret.val = Q4LackCpu) <=> (gpuPod /\ access /\ host /\ ~cpuFits)
            /\ (ret.val = Q2LackGpu) <=> (gpuPod /\ access /\ ~host /\ cpuFits)
            /\ (ret.val = Q1LackBoth) <=> (gpuPod /\ access /\ ~host /\ ~cpuFits)

\* A GPU pod of another GPU model met a node whose GPUs could host it: NoAccess.
C1_Witness ==
    /\ ret.op = "GetNodePodFrag"
    /\ podRes.MilliGpu # 0
    /\ podRes.GpuNumber = 2
    /\ CanNodeHostPodOnGpuMemory(nodeRes, podRes)
    /\ ~GpuTypeMatches(nodeRes, podRes)
    /\ ret.val = NoAccess

RECURSIVE SumFun(_, _)
SumFun(f, S) ==
    IF S = {} THEN 0
    ELSE LET x == CHOOSE y \in S : TRUE IN f[x] + SumFun(f, S \ {x})

RECURSIVE RSumFun(_, _)
RSumFun(f, S) ==
    IF S = {} THEN RInt(0)
    ELSE LET x == CHOOSE y \in S : TRUE IN RAdd(f[x], RSumFun(f, S \ {x}))

\* Sum of the remaining millis of the GPUs of node n.
GpuMillisLeft(n) == SumFun(n.MilliGpuLeftList, DOMAIN n.MilliGpuLeftList)

\* Sum of the remaining millis of the GPUs of node n with less than milliGpu left.
GpuMillisBelow(n, milliGpu) ==
    SumFun([g \in DOMAIN n.MilliGpuLeftList |->
               IF n.MilliGpuLeftList[g] < milliGpu THEN n.MilliGpuLeftList[g] ELSE 0],
           DOMAIN n.MilliGpuLeftList)

ValidFreq(f) == ~RLess(f, RInt(0)) /\ ~RLess(RInt(1), f)

\* What typical pod t adds to the entry of category c on node n.
FragContribution(n, t, c) ==
    LET f == t.Percentage
        cat == GetNodePodFrag(n, t.TargetPodResource)
        frag == GpuMillisBelow(n, t.TargetPodResource.MilliGpu)
    IN  IF ~ValidFreq(f) THEN RInt(0)
        ELSE IF cat = Q3Satisfied
             THEN IF c = Q2LackGpu THEN RMul(f, RInt(frag))
                  ELSE IF c = Q3Satisfied THEN RMul(f, RInt(GpuMillisLeft(n) - frag))
                  ELSE RInt(0)
             ELSE IF c = cat THEN RMul(f, RInt(GpuMillisLeft(n))) ELSE RInt(0)

(* C2: every entry of NodeGpuShareFragAmount(node, typicalPods) is the sum  *)
(* over the typical pods with probability f in [0,1] of: for a Q3Satisfied  *)
(* pod, f times the millis of the GPUs with less than pod.milliGpu left     *)
(* (entry Q2LackGpu) and f times the rest of the remaining millis (entry    *)
(* Q3Satisfied); for any other category, f times all remaining millis       *)
(* (entry of that category). No other entry changes.                        *)
C2_ShareFragAmountEntries ==
    ret.op = "NodeGpuShareFragAmount" =>
        /\ DOMAIN ret.val = 0..6
        /\ \A c \in FragCategories :
              ret.val[FragRatioDataMap[c]] =
                  RSumFun([k \in DOMAIN typicalPods |->
                              FragContribution(nodeRes, typicalPods[k], c)],
                          DOMAIN typicalPods)

\* A Q3Satisfied pod split the node's millis into a fragment and a usable part,
\* next to a pod of another category.
C2_Witness ==
    /\ ret.op = "NodeGpuShareFragAmount"
    /\ Len(typicalPods) = 2
    /\ ValidFreq(typicalPods[1].Percentage)
    /\ ValidFreq(typicalPods[2].Percentage)
    /\ GetNodePodFrag(nodeRes, typicalPods[1].TargetPodResource) = Q3Satisfied
    /\ GetNodePodFrag(nodeRes, typicalPods[2].TargetPodResource) = NoAccess
    /\ GpuMillisBelow(nodeRes, typicalPods[1].TargetPodResource.MilliGpu) > 0
    /\ ret.val[FragRatioDataMap[Q2LackGpu]].n > 0
    /\ ret.val[FragRatioDataMap[Q3Satisfied]].n > 0
    /\ ret.val[FragRatioDataMap[NoAccess]].n > 0

SkylinePodFits(n, p) == n.MilliCpuLeft >= p.MilliCpu /\ CanNodeHostPodOnGpuMemory(n, p)

(* C8: NodeGpuFragBasedOnSkyline returns 0 if any skyline pod fits on the   *)
(* node and the sum of the node's remaining GPU millis otherwise (so also   *)
(* for an empty skyline).                                                   *)
C8_SkylineFrag ==
    ret.op = "NodeGpuFragBasedOnSkyline" =>
        ret.val = (IF \E k \in DOMAIN skylinePods : SkylinePodFits(nodeRes, skylinePods[k])
                   THEN 0 ELSE GpuMillisLeft(nodeRes))

\* Only the second skyline pod fits on a node with GPU millis left.
C8_Witness ==
    /\ ret.op = "NodeGpuFragBasedOnSkyline"
    /\ Len(skylinePods) = 2
    /\ ~SkylinePodFits(nodeRes, skylinePods[1])
    /\ SkylinePodFits(nodeRes, skylinePods[2])
    /\ GpuMillisLeft(nodeRes) > 0
    /\ ret.val = 0

\* No skyline pod fits: all the remaining GPU millis are reported.
C8_WitnessNoFit ==
    /\ ret.op = "NodeGpuFragBasedOnSkyline"
    /\ Len(skylinePods) > 0
    /\ ret.val > 0

(* C9: CanNodeHostPodOnGpuMemory is true iff at least pod.gpuNumber entries *)
(* of node.milliGpuLeftList are >= pod.milliGpu, for every node (an empty   *)
(* GPU list included) and every pod (gpuNumber = 0 included).               *)
C9_CanHostIffEnoughGpus ==
    ret.op = "CanNodeHostPodOnGpuMemory" =>
        (ret.val <=> GpusWithAtLeast(nodeRes, podRes.MilliGpu) >= podRes.GpuNumber)

(* C10: for a pod with milliGpu > 0 on a node of a matching GPU type where  *)
(* fewer than pod.gpuNumber GPUs have pod.milliGpu left, GetNodePodFrag     *)
(* returns Q2LackGpu when the CPU fits and Q1LackBoth otherwise.            *)
C10_LackGpuCategories ==
    ( /\ ret.op = "GetNodePodFrag"
      /\ podRes.MilliGpu > 0
      /\ GpuTypeMatches(nodeRes, podRes)
      /\ GpusWithAtLeast(nodeRes, podRes.MilliGpu) < podRes.GpuNumber )
    => ret.val = (IF nodeRes.MilliCpuLeft >= podRes.MilliCpu THEN Q2LackGpu ELSE Q1LackBoth)

----------------------------------------------------------------------------
(* Claims about GetTypicalPods *)

Min(a, b) == IF a < b THEN a ELSE b

\* Whether the aggregation loop counts pod p under configuration cfg.
IsCounted(p, cfg) == cfg.IsInvolvedCpuPods \/ p.GpuNumber # 0

\* The weight of pod p: 1 + gpuNumber * gpuResWeight for a full-GPU pod when the
\* configured weight is positive, 1 otherwise.
PodWeight(p, cfg) ==
    IF p.MilliGpu = 1000 /\ cfg.GpuResWeight > 0
    THEN 1 + p.GpuNumber * cfg.GpuResWeight
    ELSE 1

\* The shapes the workload aggregates to, and the weighted count of each.
CountedShapes == {allPods[k] : k \in {j \in DOMAIN allPods : IsCounted(allPods[j], config)}}

ShapeCount(shape) ==
    SumFun([k \in DOMAIN allPods |->
               IF allPods[k] = shape /\ IsCounted(shape, config)
               THEN PodWeight(shape, config) ELSE 0],
           DOMAIN allPods)

TotalCount ==
    SumFun([k \in DOMAIN allPods |->
               IF IsCounted(allPods[k], config) THEN PodWeight(allPods[k], config) ELSE 0],
           DOMAIN allPods)

ReturnedShapes == {ret.val[k].TargetPodResource : k \in DOMAIN ret.val}

PercentageSum == RSumFun([k \in DOMAIN ret.val |-> ret.val[k].Percentage], DOMAIN ret.val)

SumsToOne == ~RLess(Rat(1, 1000), RAbs(RSub(PercentageSum, RInt(1))))

(* C3 as stated: after GetTypicalPods returns, for every workload and every *)
(* configuration the percentages of the returned list sum to 1 within 1e-3. *)
C3_PercentagesSumToOne ==
    ret.op = "GetTypicalPods" => SumsToOne

(* C3 as amended: after GetTypicalPods returns on a workload of which it    *)
(* counts at least one pod, the percentages of the returned list sum to 1   *)
(* within 1e-3, whether the whole list or a renormalised prefix is          *)
(* returned; when it counts no pod the list is empty and the sum is 0.      *)
C3_PercentagesSumToOneIfCounted ==
    ret.op = "GetTypicalPods" =>
        IF CountedShapes # {} THEN SumsToOne ELSE ret.val = <<>>

\* A renormalised proper prefix of two shapes was returned.
C3_Witness ==
    /\ ret.op = "GetTypicalPods"
    /\ Len(ret.val) = 2
    /\ Cardinality(CountedShapes) = 3
    /\ ret.val[1].Percentage # ret.val[2].Percentage

(* C4: two invocations of GetTypicalPods on the same workload and the same  *)
(* configuration return the same entries in the same order.                 *)
C4_TypicalPodsDeterministic ==
    [][(ret.op = "GetTypicalPods" /\ ret'.op = "GetTypicalPods") => ret'.val = ret.val]_vars

\* The sum of the m largest weighted counts.
TopCount(m) ==
    LET sums == {SumFun([x \in S |-> ShapeCount(x)], S) :
                    S \in {T \in SUBSET CountedShapes : Cardinality(T) = m}}
    IN  CHOOSE x \in sums : \A y \in sums : y <= x

EffectiveStep ==
    IF config.PodIncreaseStep > 0 THEN config.PodIncreaseStep
    ELSE DefaultTypicalPodIncreaseStep

EffectiveThreshold ==
    IF config.PodPopularityThreshold > 0 THEN config.PodPopularityThreshold
    ELSE DefaultTypicalPodPopularityThreshold

\* Whether the first k * step shapes reach the threshold share of the total.
PrefixReaches(k) ==
    100 * TopCount(Min(Cardinality(CountedShapes), k * EffectiveStep))
        >= EffectiveThreshold * TotalCount

(* C5: GetTypicalPods returns a prefix of the shapes sorted by descending   *)
(* weighted count, of length min(number of shapes, k * step) for the        *)
(* smallest k >= 1 whose first k * step shapes reach the threshold percent  *)
(* of the total weighted count (default step and threshold when the         *)
(* configured ones are <= 0).                                               *)
C5_PrefixLength ==
    ret.op = "GetTypicalPods" =>
        LET n == Cardinality(CountedShapes)
        IN  /\ \E k \in 1..(n + 1) :
                  /\ PrefixReaches(k)
                  /\ \A j \in 1..(k - 1) : ~PrefixReaches(j)
                  /\ Len(ret.val) = Min(n, k * EffectiveStep)
            /\ ReturnedShapes \subseteq CountedShapes
            /\ Cardinality(ReturnedShapes) = Len(ret.val)
            /\ \A a, b \in DOMAIN ret.val :
                  a < b => ShapeCount(ret.val[a].TargetPodResource)
                               >= ShapeCount(ret.val[b].TargetPodResource)
            /\ \A x \in CountedShapes \ ReturnedShapes : \A y \in ReturnedShapes :
                  ShapeCount(x) <= ShapeCount(y)

\* With the default step, the second round closed a prefix of two of three shapes.
C5_Witness ==
    /\ ret.op = "GetTypicalPods"
    /\ config.PodIncreaseStep = 0
    /\ Cardinality(CountedShapes) = 3
    /\ Len(ret.val) = 2
    /\ ~PrefixReaches(1)

\* The weight and the counts as C6 states them: every pod of the workload is
\* weighted, a full-GPU pod by 1 + gpuNumber * gpuResWeight.
StatedWeight(p) == IF p.MilliGpu = 1000 THEN 1 + p.GpuNumber * config.GpuResWeight ELSE 1

StatedCount(shape) ==
    SumFun([k \in DOMAIN allPods |-> IF allPods[k] = shape THEN StatedWeight(shape) ELSE 0],
           DOMAIN allPods)

StatedTotal == SumFun([k \in DOMAIN allPods |-> StatedWeight(allPods[k])], DOMAIN allPods)

(* C6 as stated: each pod weighs 1 + gpuNumber * gpuResWeight when it       *)
(* requests a full GPU and 1 otherwise, the weights are summed per shape,   *)
(* and each returned shape's percentage is its weighted count over the      *)
(* total; 10 CPU-only pods and 5 full-GPU pods with gpuResWeight = 2 and    *)
(* threshold 100 give exactly two entries, 10/25 and 15/25.                 *)
C6_WeightedPercentages ==
    ret.op = "GetTypicalPods" =>
        /\ \A k \in DOMAIN ret.val :
              ret.val[k].Percentage.n * StatedTotal
                  = StatedCount(ret.val[k].TargetPodResource) * ret.val[k].Percentage.d
        /\ ( /\ allPods = ScenarioWorkload
             /\ config.GpuResWeight = 2
             /\ config.PodPopularityThreshold = 100 )
           => /\ Len(ret.val) = 2
              /\ {ret.val[k].Percentage : k \in DOMAIN ret.val} = {Rat(10, 25), Rat(15, 25)}

\* The sum of the weighted counts of the returned shapes.
ReturnedCount == SumFun([x \in ReturnedShapes |-> ShapeCount(x)], ReturnedShapes)

(* C6 as amended: each counted pod (every pod when isInvolvedCpuPods is     *)
(* set, otherwise the pods with gpuNumber > 0) weighs 1 + gpuNumber *       *)
(* gpuResWeight when it requests a full GPU and gpuResWeight > 0, and 1     *)
(* otherwise; the weights are summed per shape, and each returned shape's   *)
(* percentage is its weighted count over the weighted count of the returned *)
(* shapes (the total, when all shapes are returned); with isInvolvedCpuPods *)
(* set, 10 CPU-only pods and 5 full-GPU pods with gpuResWeight = 2 and      *)
(* threshold 100 give exactly two entries, 15/25 and 10/25.                 *)
C6_WeightedPercentagesOfCounted ==
    ret.op = "GetTypicalPods" =>
        /\ ReturnedShapes \subseteq CountedShapes
        /\ \A k \in DOMAIN ret.val :
              ret.val[k].Percentage =
                  Rat(ShapeCount(ret.val[k].TargetPodResource), ReturnedCount)
        /\ Len(ret.val) = Cardinality(CountedShapes) => ReturnedCount = TotalCount
        /\ ( /\ allPods = ScenarioWorkload
             /\ config.IsInvolvedCpuPods
             /\ config.GpuResWeight = 2
             /\ config.PodPopularityThreshold = 100 )
           => ret.val = << [TargetPodResource |-> OneGpuPod, Percentage |-> Rat(15, 25)],
                           [TargetPodResource |-> CpuOnlyPod, Percentage |-> Rat(10, 25)] >>

\* The scenario of 10 CPU-only and 5 full-GPU pods was distilled.
C6_Witness ==
    /\ ret.op = "GetTypicalPods"
    /\ allPods = ScenarioWorkload
    /\ config.IsInvolvedCpuPods
    /\ config.GpuResWeight = 2
    /\ config.PodPopularityThreshold = 100
    /\ Len(ret.val) = 2

----------------------------------------------------------------------------
(* Claims about GetSkylinePods *)

\* Pod a asks for no more CPU and no more GPU millis than pod b: wherever b's
\* request for the two is met, a's is too.
Dominates(a, b) == a.MilliCpu <= b.MilliCpu /\ a.MilliGpu <= b.MilliGpu

\* The positions of the workload whose pod no other pod of the workload dominates
\* with another (milliCpu, milliGpu), and that come first with their own.
FrontierPositions ==
    { k \in DOMAIN allPods :
        /\ \A j \in DOMAIN allPods :
              Dominates(allPods[j], allPods[k])
                  => ( allPods[j].MilliCpu = allPods[k].MilliCpu
                       /\ allPods[j].MilliGpu = allPods[k].MilliGpu )
        /\ \A j \in 1..(k - 1) :
              ~( allPods[j].MilliCpu = allPods[k].MilliCpu
                 /\ allPods[j].MilliGpu = allPods[k].MilliGpu ) }

----------------------------------------------------------------------------
(* pkg/utils/frag.go: the Bellman estimator, NodeGpuFragBellman *)

\* The GPU list after milliGpu is taken from the need lowest-indexed GPUs
\* that have at least milliGpu left.
RECURSIVE SubGpus(_, _, _, _)
SubGpus(list, k, milliGpu, need) ==
    IF k > Len(list) \/ need <= 0 THEN list
    ELSE IF list[k] >= milliGpu
         THEN SubGpus([list EXCEPT ![k] = @ - milliGpu], k + 1, milliGpu, need - 1)
         ELSE SubGpus(list, k + 1, milliGpu, need)

\* NodeResource.Sub: [ok, node]; node is the receiver unchanged on an error.
Sub(n, p) ==
    IF n.MilliCpuLeft < p.MilliCpu THEN [ok |-> FALSE, node |-> n]
    ELSE IF p.GpuType # "" /\ p.GpuType # n.GpuType THEN [ok |-> FALSE, node |-> n]
    ELSE IF Cardinality({k \in DOMAIN n.MilliGpuLeftList :
                            n.MilliGpuLeftList[k] >= p.MilliGpu}) < p.GpuNumber
         THEN [ok |-> FALSE, node |-> n]
    ELSE [ok |-> TRUE,
          node |-> [n EXCEPT !.MilliCpuLeft = @ - p.MilliCpu,
                             !.MilliGpuLeftList = SubGpus(@, 1, p.MilliGpu, p.GpuNumber)]]

\* NodeResource.Flatten: the signature the memo is keyed by.
Flatten(n) == <<n.MilliCpuLeft, n.MilliGpuLeftList, n.GpuType>>

\* FragRatio.AddRatio: the data after the call (unchanged on an error).
AddRatio(data, fragType, freq) ==
    IF RLess(freq, RInt(0)) \/ RLess(RInt(1), freq) THEN data
    ELSE IF fragType \notin DOMAIN FragRatioDataMap THEN data
    ELSE [data EXCEPT ![FragRatioDataMap[fragType]] = RAdd(@, freq)]

RECURSIVE FragRatioLoop(_, _, _, _)
FragRatioLoop(n, pods, k, data) ==
    IF k > Len(pods) THEN data
    ELSE LET freq == pods[k].Percentage
         IN  IF RLess(freq, RInt(0)) \/ RLess(RInt(1), freq)
             THEN FragRatioLoop(n, pods, k + 1, data)
             ELSE FragRatioLoop(n, pods, k + 1,
                      AddRatio(data, GetNodePodFrag(n, pods[k].TargetPodResource), freq))

NodeGpuFragRatio(n, pods) == FragRatioLoop(n, pods, 1, [k \in 0..6 |-> RInt(0)])

RECURSIVE SumExceptQ3Loop(_, _)
SumExceptQ3Loop(data, i) ==
    IF i >= Cardinality(DOMAIN FragRatioDataMap) THEN RInt(0)
    ELSE IF i # FragRatioDataMap[Q3Satisfied]
         THEN RAdd(data[i], SumExceptQ3Loop(data, i + 1))
         ELSE SumExceptQ3Loop(data, i + 1)

FragRatioSumExceptQ3(data) == SumExceptQ3Loop(data, 0)

\* gamma and delta of frag.go:252-253.
BellmanGamma == RInt(1)
BellmanDelta == Rat(999, 1000)

\* The entry of NodeGpuFragBellman with the two early returns exchanged with
\* the cut-off: the fragmentation ratio is looked at first.
BellmanEntryRatioFirst(n, pods, memo, cumProb) ==
    LET gpuMilliLeftTotal == RInt(GetGpuMilliLeftTotal(n))
        fragRatioValue == FragRatioSumExceptQ3(NodeGpuFragRatio(n, pods))
    IN  IF Flatten(n) \in DOMAIN memo THEN [kind |-> "hit", frag |-> memo[Flatten(n)]]
        ELSE IF ~RLess(fragRatioValue, BellmanDelta)
             THEN [kind |-> "full", frag |-> gpuMilliLeftTotal]
        ELSE IF gpuMilliLeftTotal = RInt(0) THEN [kind |-> "skip", frag |-> RInt(0)]
        ELSE IF RLess(RMul(gpuMilliLeftTotal, cumProb), RInt(1))
             THEN [kind |-> "skip", frag |-> RInt(0)]
        ELSE [kind |-> "loop", frag |-> RInt(0)]

\* frag.go:233-257 and 275-279: what a call does before it looks at the pods.
\*   hit:  the memo holds the signature, its value is returned;
\*   skip: 0 is returned and nothing is stored;
\*   full: gpuMilliLeftTotal is stored and returned;
\*   loop: the typical pods are gone through.
BellmanEntry(n, pods, memo, cumProb) ==
    LET gpuMilliLeftTotal == RInt(GetGpuMilliLeftTotal(n))
        fragRatioValue == FragRatioSumExceptQ3(NodeGpuFragRatio(n, pods))
    IN  IF Flatten(n) \in DOMAIN memo THEN [kind |-> "hit", frag |-> memo[Flatten(n)]]
        ELSE IF gpuMilliLeftTotal = RInt(0) THEN [kind |-> "skip", frag |-> RInt(0)]
        ELSE IF RLess(RMul(gpuMilliLeftTotal, cumProb), RInt(1))
             THEN [kind |-> "skip", frag |-> RInt(0)]
        ELSE IF RLess(fragRatioValue, BellmanDelta) THEN [kind |-> "loop", frag |-> RInt(0)]
        ELSE [kind |-> "full", frag |-> gpuMilliLeftTotal]

\* sync.Map.Store
MemoStore(memo, key, frag) ==
    IF key \in DOMAIN memo THEN [memo EXCEPT ![key] = frag] ELSE memo @@ (key :> frag)

\* A call of NodeGpuFragBellman in progress.
BellmanFrame(n, cumProb) ==
    [nodeRes |-> n, cumProb |-> cumProb, st |-> "enter", k |-> 1, pvSum |-> RInt(0)]

\* BellmanReturn with the value of the nested call added without its weight p.
BellmanReturnUnweighted(stack, pods, v) ==
    IF Len(stack) = 1 THEN <<>>
    ELSE LET caller == stack[Len(stack) - 1]
         IN  [SubSeq(stack, 1, Len(stack) - 1) EXCEPT
                 ![Len(stack) - 1] = [caller EXCEPT !.pvSum = RAdd(@, v), !.k = @ + 1]]

\* The stack of a scorer after its innermost call has returned v: the caller,
\* if there is one, goes on with frag.go:270-271.
BellmanReturn(stack, pods, v) ==
    IF Len(stack) = 1 THEN <<>>
    ELSE LET caller == stack[Len(stack) - 1]
             p == pods[caller.k].Percentage
         IN  [SubSeq(stack, 1, Len(stack) - 1) EXCEPT
                 ![Len(stack) - 1] = [caller EXCEPT !.pvSum = RAdd(@, RMul(v, p)),
                                                    !.k = @ + 1]]

----------------------------------------------------------------------------
(* Specification SpecBellman: a node and a typical-pod list are drawn; two *)
(* scorers share one memo and each applies NodeGpuFragBellman, with        *)
(* cumulative probability 1, to the node or to the node after one of the   *)
(* typical pods is subtracted from it. A call advances one memo access or  *)
(* one loop round at a time.                                               *)

Scorers == {1, 2}

Share500Pod == [MilliCpu |-> 1000, MilliGpu |-> 500, GpuNumber |-> 1, GpuType |-> ""]
Share498Pod == [MilliCpu |-> 1000, MilliGpu |-> 498, GpuNumber |-> 1, GpuType |-> ""]
TypedSharePod == [MilliCpu |-> 1000, MilliGpu |-> 500, GpuNumber |-> 1, GpuType |-> "A100"]

BellmanNodes ==
    [MilliCpuLeft : {1000, 2000},
     MilliGpuLeftList : {<<>>, <<1000>>, <<502>>, <<1000, 500>>},
     GpuType : {"V100"}]

\* Typical-pod lists as the distiller returns them: the percentages sum to 1.
BellmanTypicalPods ==
    { <<[TargetPodResource |-> Share500Pod, Percentage |-> Rat(1, 2)],
        [TargetPodResource |-> Share498Pod, Percentage |-> Rat(1, 2)]>>,
      <<[TargetPodResource |-> OneGpuPod, Percentage |-> Rat(1, 2)],
        [TargetPodResource |-> Share500Pod, Percentage |-> Rat(1, 2)]>>,
      <<[TargetPodResource |-> CpuOnlyPod, Percentage |-> Rat(3, 4)],
        [TargetPodResource |-> Share498Pod, Percentage |-> Rat(1, 4)]>>,
      <<[TargetPodResource |-> TypedSharePod, Percentage |-> Rat(1, 4)],
        [TargetPodResource |-> Share500Pod, Percentage |-> Rat(3, 4)]>>,
      <<[TargetPodResource |-> Share500Pod, Percentage |-> Rat(1, 1)]>> }

InitBellman ==
    /\ nodeRes \in BellmanNodes
    /\ podRes = NoPod
    /\ typicalPods \in BellmanTypicalPods
    /\ skylinePods = <<>>
    /\ allPods = <<>>
    /\ config = NoConfig
    /\ pc = [t \in Scorers |-> "idle"]
    /\ loc = [t \in Scorers |-> <<>>]
    /\ ret = NoRet
    /\ dp = EmptyMemo
    /\ nodes = NoNodes
    /\ placed = NoPlaced
    /\ queue = <<>>

\* The nodes a scorer estimates: the node, and the node after a pod is placed.
ScoredNodes ==
    {nodeRes} \cup {Sub(nodeRes, typicalPods[k].TargetPodResource).node : k \in DOMAIN typicalPods}

BellmanRet(frame, entry) ==
    [op |-> "NodeGpuFragBellman", nodeRes |-> frame.nodeRes, cumProb |-> frame.cumProb,
     kind |-> entry.kind, val |-> entry.frag]

\* A scorer calls NodeGpuFragBellman(n, typicalPods, dp, 1.0).
BellmanCall(t) ==
    /\ pc[t] = "idle"
    /\ \E n \in ScoredNodes : loc' = [loc EXCEPT ![t] = <<BellmanFrame(n, RInt(1))>>]
    /\ pc' = [pc EXCEPT ![t] = "run"]
    /\ UNCHANGED <<nodeRes, podRes, typicalPods, skylinePods, allPods, config, ret, clusterVars>>

\* frag.go:233-257, 275-282: the memo lookup, the early returns and the cut-off.
BellmanEnter(t) ==
    /\ pc[t] = "run"
    /\ LET stack == loc[t]
           top == stack[Len(stack)]
           entry == BellmanEntry(top.nodeRes, typicalPods, dp, top.cumProb)
       IN  /\ top.st = "enter"
           /\ IF entry.kind = "loop"
              THEN /\ loc' = [loc EXCEPT ![t][Len(stack)].st = "loop"]
                   /\ UNCHANGED <<pc, ret, dp>>
              ELSE /\ dp' = IF entry.kind = "full"
                            THEN MemoStore(dp, Flatten(top.nodeRes), entry.frag)
                            ELSE dp
                   /\ loc' = [loc EXCEPT ![t] = BellmanReturn(stack, typicalPods, entry.frag)]
                   /\ pc' = [pc EXCEPT ![t] = IF Len(stack) = 1 THEN "done" ELSE "run"]
                   /\ ret' = BellmanRet(top, entry)
    /\ UNCHANGED <<nodeRes, podRes, typicalPods, skylinePods, allPods, config, nodes, placed, queue>>

\* frag.go:259-272: one round of the loop over the typical pods.
BellmanLoop(t) ==
    /\ pc[t] = "run"
    /\ LET stack == loc[t]
           top == stack[Len(stack)]
       IN  /\ top.st = "loop"
           /\ top.k <= Len(typicalPods)
           /\ LET pod == typicalPods[top.k]
                  p == pod.Percentage
                  sub == Sub(top.nodeRes, pod.TargetPodResource)
                  gpuMilliLeftTotal == RInt(GetGpuMilliLeftTotal(top.nodeRes))
              IN  IF ~sub.ok
                  THEN loc' = [loc EXCEPT ![t][Len(stack)] =
                                  [top EXCEPT !.pvSum = RAdd(@, RMul(gpuMilliLeftTotal, p)),
                                              !.k = @ + 1]]
                  ELSE loc' = [loc EXCEPT ![t] =
                                  Append(stack, BellmanFrame(sub.node, RMul(top.cumProb, p)))]
    /\ UNCHANGED <<nodeRes, podRes, typicalPods, skylinePods, allPods, config, pc, ret, clusterVars>>

\* frag.go:273-274, 280-282: after the loop the sum is stored and returned.
BellmanStore(t) ==
    /\ pc[t] = "run"
    /\ LET stack == loc[t]
           top == stack[Len(stack)]
           frag == RMul(top.pvSum, BellmanGamma)
       IN  /\ top.st = "loop"
           /\ top.k > Len(typicalPods)
           /\ dp' = MemoStore(dp, Flatten(top.nodeRes), frag)
           /\ loc' = [loc EXCEPT ![t] = BellmanReturn(stack, typicalPods, frag)]
           /\ pc' = [pc EXCEPT ![t] = IF Len(stack) = 1 THEN "done" ELSE "run"]
           /\ ret' = BellmanRet(top, [kind |-> "sum", frag |-> frag])
    /\ UNCHANGED <<nodeRes, podRes, typicalPods, skylinePods, allPods, config, nodes, placed, queue>>

NextBellman ==
    \E t \in Scorers :
        \/ BellmanCall(t)
        \/ BellmanEnter(t)
        \/ BellmanLoop(t)
        \/ BellmanStore(t)

SpecBellman == InitBellman /\ [][NextBellman]_vars

----------------------------------------------------------------------------
(* Claims about the Bellman estimator *)

\* FragRatioSumExceptQ3 of the returning call's node is at least 0.999.
RetAllFragmented ==
    ~RLess(FragRatioSumExceptQ3(NodeGpuFragRatio(ret.nodeRes, typicalPods)), Rat(999, 1000))

RetMilliLeftTotal == RInt(GpuMillisLeft(ret.nodeRes))

\* gpuMilliLeftTotal * cumProb < 1 for the returning call.
RetBelowCutOff == RLess(RMul(RetMilliLeftTotal, ret.cumProb), RInt(1))

(* C11: NodeGpuFragBellman returns gpuMilliLeftTotal whenever the node's     *)
(* FragRatioSumExceptQ3 over the typical pods is >= 0.999, whatever the     *)
(* cumulative probability and the memo, and returns 0 whenever              *)
(* gpuMilliLeftTotal * cumProb < 1.                                         *)
C11_BellmanEarlyReturns ==
    ret.op = "NodeGpuFragBellman" =>
        /\ RetAllFragmented => ret.val = RetMilliLeftTotal
        /\ RetBelowCutOff => ret.val = RInt(0)

(* C11 as amended: a call whose node signature is in the memo returns the   *)
(* memoized value; otherwise the call returns 0 whenever                    *)
(* gpuMilliLeftTotal * cumProb < 1, and returns gpuMilliLeftTotal whenever  *)
(* FragRatioSumExceptQ3 >= 0.999 and gpuMilliLeftTotal * cumProb >= 1.      *)
(* With FragRatioSumExceptQ3 >= 0.999 and gpuMilliLeftTotal * cumProb >= 1  *)
(* the memoized value is gpuMilliLeftTotal too.                             *)
C11_BellmanEarlyReturnsInOrder ==
    ret.op = "NodeGpuFragBellman" =>
        /\ ret.kind = "hit" => ret.val = dp[Flatten(ret.nodeRes)]
        /\ ret.kind # "hit" /\ RetBelowCutOff => ret.val = RInt(0)
        /\ RetAllFragmented /\ ~RetBelowCutOff => ret.val = RetMilliLeftTotal

\* A call on a node whose millis are all fragmented returned them, and it was
\* a nested call, with a cumulative probability below 1.
C11_Witness ==
    /\ ret.op = "NodeGpuFragBellman"
    /\ ret.kind = "full"
    /\ RetAllFragmented
    /\ RLess(ret.cumProb, RInt(1))
    /\ ret.val = RetMilliLeftTotal
    /\ ret.val # RInt(0)

(* C12: the memo never holds inconsistent values: a value stored under a    *)
(* node signature is never replaced by a different value, whichever scorer  *)
(* stores it and whatever cumulative probability its call carries, and a    *)
(* value returned for a signature is the value the memo holds for it.       *)
C12_MemoConsistent ==
    [][/\ \A key \in DOMAIN dp : key \in DOMAIN dp' /\ dp'[key] = dp[key]
       /\ (ret'.op = "NodeGpuFragBellman" /\ Flatten(ret'.nodeRes) \in DOMAIN dp')
              => ret'.val = dp'[Flatten(ret'.nodeRes)]]_vars

----------------------------------------------------------------------------
(* pkg/simulator/plugin/pwr_score.go: the PWR score plugin *)

MaxNodeScore == 100
MinNodeScore == 0

\* The energy model of the resource model: idle and busy power of a GPU and
\* of the CPUs of a node, and the CPU capacity of a node.
GpuIdleEnergy == 50
GpuBusyEnergy == 250
CpuIdleEnergy == 100
CpuBusyEnergy == 200
NodeMilliCpuCapacity == 4000

\* Energy of one GPU with milliGpuLeft left: off when it is fully idle.
GpuEnergy(milliGpuLeft) ==
    IF milliGpuLeft = MILLI THEN RInt(0)
    ELSE RAdd(RInt(GpuIdleEnergy),
              Rat((GpuBusyEnergy - GpuIdleEnergy) * (MILLI - milliGpuLeft), MILLI))

RECURSIVE GpuEnergyLoop(_, _)
GpuEnergyLoop(list, k) ==
    IF k > Len(list) THEN RInt(0)
    ELSE RAdd(GpuEnergy(list[k]), GpuEnergyLoop(list, k + 1))

CpuEnergy(milliCpuLeft) ==
    IF milliCpuLeft = NodeMilliCpuCapacity THEN RInt(0)
    ELSE RAdd(RInt(CpuIdleEnergy),
              Rat((CpuBusyEnergy - CpuIdleEnergy) * (NodeMilliCpuCapacity - milliCpuLeft),
                  NodeMilliCpuCapacity))

\* NodeResource.GetEnergyConsumptionNode: CPU energy plus GPU energy.
GetEnergyConsumptionNode(n) ==
    RAdd(CpuEnergy(n.MilliCpuLeft), GpuEnergyLoop(n.MilliGpuLeftList, 1))

\* SigmoidSteps[s] is the least x, in millionths, at which
\* 100 / (1 + exp(-x)) reaches s.
SigmoidSteps ==
    << -4595119, -3891820, -3476098, -3178053, -2944438, -2751535, -2586689, -2442347, -2313634,
       -2197224, -2090741, -1992430, -1900958, -1815289, -1734601, -1658228, -1585627, -1516347,
       -1450010, -1386294, -1324925, -1265666, -1208311, -1152679, -1098612, -1045968, -994622,
       -944461, -895384, -847297, -800119, -753771, -708185, -663294, -619039, -575364,
       -532216, -489548, -447312, -405465, -363965, -322773, -281851, -241162, -200670,
       -160342, -120144, -80042, -40005, 0, 40006, 80043, 120145, 160343,
       200671, 241163, 281852, 322774, 363966, 405466, 447313, 489549, 532217,
       575365, 619040, 663295, 708186, 753772, 800120, 847298, 895385, 944462,
       994623, 1045969, 1098613, 1152680, 1208312, 1265667, 1324926, 1386295, 1450011,
       1516348, 1585628, 1658229, 1734602, 1815290, 1900959, 1992431, 2090742, 2197225,
       2313635, 2442348, 2586690, 2751536, 2944439, 3178054, 3476099, 3891821, 4595120 >>

\* int64(sigmoid(x) * float64(framework.MaxNodeScore)) for x a multiple of
\* one millionth with |x| < 36.
SigmoidScore(x) ==
    Cardinality({s \in DOMAIN SigmoidSteps :
                    ~RLess(RMul(x, RInt(1000000)), RInt(SigmoidSteps[s]))})

\* pwr_score.go:122: the score of a placement that takes the node from
\* energy old to energy new.
PWRFragScore(old, new) == SigmoidScore(RDiv(RSub(old, new), RInt(1000)))

RECURSIVE JoinGpuIds(_)
JoinGpuIds(ids) ==
    IF Len(ids) = 0 THEN ""
    ELSE IF Len(ids) = 1 THEN ToString(ids[1])
    ELSE ToString(ids[1]) \o "," \o JoinGpuIds(Tail(ids))

RECURSIVE ExclusiveGpuLoop(_, _, _, _)
ExclusiveGpuLoop(list, k, need, ids) ==
    IF need <= 0 THEN ids
    ELSE IF k > Len(list) THEN <<>>
    ELSE IF list[k] = MILLI THEN ExclusiveGpuLoop(list, k + 1, need - 1, Append(ids, k - 1))
    ELSE ExclusiveGpuLoop(list, k + 1, need, ids)

\* simontype.AllocateExclusiveGpuId: the lowest-indexed fully free GPUs, or
\* no GPU when there are fewer than the pod asks for.
AllocateExclusiveGpuId(n, p) ==
    JoinGpuIds(ExclusiveGpuLoop(n.MilliGpuLeftList, 1, p.GpuNumber, <<>>))

\* The loop of pwr_score.go:105-128 keeping the last of the GPUs that score
\* the same.
RECURSIVE PWRShareLoopLastWins(_, _, _, _, _, _, _)
PWRShareLoopLastWins(n, p, oldNodeEnergy, i, score, gpuId, built) ==
    IF i > Len(n.MilliGpuLeftList)
    THEN [score |-> score, gpuId |-> gpuId, built |-> built, nodeRes |-> n]
    ELSE IF n.MilliGpuLeftList[i] >= p.MilliGpu
         THEN LET newNodeRes ==
                      [n EXCEPT !.MilliCpuLeft = @ - p.MilliCpu,
                                      !.MilliGpuLeftList[i] = @ - p.MilliGpu]
                  fragScore ==
                      PWRFragScore(oldNodeEnergy, GetEnergyConsumptionNode(newNodeRes))
              IN  IF gpuId = "" \/ fragScore >= score
                  THEN PWRShareLoopLastWins(n, p, oldNodeEnergy, i + 1, fragScore,
                                            ToString(i - 1), Append(built, newNodeRes))
                  ELSE PWRShareLoopLastWins(n, p, oldNodeEnergy, i + 1, score,
                                            gpuId, Append(built, newNodeRes))
         ELSE PWRShareLoopLastWins(n, p, oldNodeEnergy, i + 1, score, gpuId, built)

\* The loop of pwr_score.go:105-128 with newNodeRes sharing the GPU list of
\* the node instead of copying it.
RECURSIVE PWRShareLoopNoCopy(_, _, _, _, _, _, _)
PWRShareLoopNoCopy(n, p, oldNodeEnergy, i, score, gpuId, built) ==
    IF i > Len(n.MilliGpuLeftList)
    THEN [score |-> score, gpuId |-> gpuId, built |-> built, nodeRes |-> n]
    ELSE IF n.MilliGpuLeftList[i] >= p.MilliGpu
         THEN LET newNodeRes ==
                      [n EXCEPT !.MilliCpuLeft = @ - p.MilliCpu,
                                      !.MilliGpuLeftList[i] = @ - p.MilliGpu]
                  shared == [n EXCEPT !.MilliGpuLeftList = newNodeRes.MilliGpuLeftList]
                  fragScore ==
                      PWRFragScore(oldNodeEnergy, GetEnergyConsumptionNode(newNodeRes))
              IN  IF gpuId = "" \/ fragScore > score
                  THEN PWRShareLoopNoCopy(shared, p, oldNodeEnergy, i + 1, fragScore,
                                          ToString(i - 1), Append(built, newNodeRes))
                  ELSE PWRShareLoopNoCopy(shared, p, oldNodeEnergy, i + 1, score,
                                          gpuId, Append(built, newNodeRes))
         ELSE PWRShareLoopNoCopy(n, p, oldNodeEnergy, i + 1, score, gpuId, built)

\* The loop of pwr_score.go:105-128 from GPU i on (i counts from 1, the GPU
\* id from 0). built lists the newNodeRes built so far; nodeRes is the
\* node the caller handed over, as the loop leaves it.
RECURSIVE PWRShareLoop(_, _, _, _, _, _, _)
PWRShareLoop(n, p, oldNodeEnergy, i, score, gpuId, built) ==
    IF i > Len(n.MilliGpuLeftList)
    THEN [score |-> score, gpuId |-> gpuId, built |-> built, nodeRes |-> n]
    ELSE IF n.MilliGpuLeftList[i] >= p.MilliGpu
         THEN LET newNodeRes ==
                      [n EXCEPT !.MilliCpuLeft = @ - p.MilliCpu,
                                      !.MilliGpuLeftList[i] = @ - p.MilliGpu]
                  fragScore ==
                      PWRFragScore(oldNodeEnergy, GetEnergyConsumptionNode(newNodeRes))
              IN  IF gpuId = "" \/ fragScore > score
                  THEN PWRShareLoop(n, p, oldNodeEnergy, i + 1, fragScore,
                                    ToString(i - 1), Append(built, newNodeRes))
                  ELSE PWRShareLoop(n, p, oldNodeEnergy, i + 1, score,
                                    gpuId, Append(built, newNodeRes))
         ELSE PWRShareLoop(n, p, oldNodeEnergy, i + 1, score, gpuId, built)

\* pwr_score.go:92-142: [score, gpuId], with the newNodeRes built and the
\* caller's node as the call leaves it.
calculatePWRShareFragExtendScore(n, p) ==
    LET oldNodeEnergy == GetEnergyConsumptionNode(n)
    IN  IF p.GpuNumber = 1 /\ p.MilliGpu < MILLI
        THEN PWRShareLoop(n, p, oldNodeEnergy, 1, 0, "", <<>>)
        ELSE LET newNodeRes == Sub(n, p).node
             IN  [score |-> PWRFragScore(oldNodeEnergy, GetEnergyConsumptionNode(newNodeRes)),
                  gpuId |-> AllocateExclusiveGpuId(n, p),
                  built |-> <<newNodeRes>>,
                  nodeRes |-> n]

\* pwr_score.go:145-148
allocateGpuIdBasedOnPWRScore(n, p) ==
    calculatePWRShareFragExtendScore(n, p)

\* utils.GetPodResource: the PodResource of a pod.
GetPodResource(p) ==
    [MilliCpu |-> IF "cpu" \in DOMAIN p.Requests THEN p.Requests["cpu"] ELSE 0,
     MilliGpu |-> p.GpuMilli, GpuNumber |-> p.GpuCount, GpuType |-> p.GpuType]

\* PWRScorePlugin.Score without the accessibility test of pwr_score.go:71-73.
ScoreWithoutAccessTest(p, nodeName, table) ==
    IF Cardinality(DOMAIN p.Requests) = 0
    THEN [score |-> MaxNodeScore, status |-> "Success", built |-> <<>>, table |-> table]
    ELSE IF nodeName \notin DOMAIN table
    THEN [score |-> MinNodeScore, status |-> "Error", built |-> <<>>, table |-> table]
    ELSE LET r == calculatePWRShareFragExtendScore(table[nodeName], GetPodResource(p))
         IN  [score |-> r.score, status |-> "Success", built |-> r.built,
              table |-> [table EXCEPT ![nodeName] = r.nodeRes]]

\* PWRScorePlugin.Score, pwr_score.go:46-84: [score, status], with the
\* newNodeRes built and the node table as the call leaves it.
Score(p, nodeName, table) ==
    IF Cardinality(DOMAIN p.Requests) = 0
    THEN [score |-> MaxNodeScore, status |-> "Success", built |-> <<>>, table |-> table]
    ELSE IF nodeName \notin DOMAIN table
    THEN [score |-> MinNodeScore, status |-> "Error", built |-> <<>>, table |-> table]
    ELSE IF ~IsNodeAccessibleToPod(table[nodeName], GetPodResource(p))
    THEN [score |-> MinNodeScore, status |-> "Error", built |-> <<>>, table |-> table]
    ELSE LET r == calculatePWRShareFragExtendScore(table[nodeName], GetPodResource(p))
         IN  [score |-> r.score, status |-> "Success", built |-> r.built,
              table |-> [table EXCEPT ![nodeName] = r.nodeRes]]

----------------------------------------------------------------------------
(* Specification SpecScore: a node table and the pod of a scheduling cycle *)
(* are drawn; the framework applies PWRScorePlugin.Score to the pod and a  *)
(* node name, and the reserver applies allocateGpuIdBasedOnPWRScore to the *)
(* pod and a node that passed the Open-Gpu-Share filter.                   *)

EmptyRequests == [x \in {} |-> 0]

PodRequests == {EmptyRequests, "cpu" :> 1000, "cpu" :> 3000, "memory" :> 1024}

\* (gpu-milli, gpu-count) of a pod: no GPU, a share of one GPU, whole GPUs.
PodGpuRequests == {<<0, 0>>, <<300, 1>>, <<500, 1>>, <<1000, 1>>, <<1000, 2>>}

ScorePods ==
    { [Name |-> "pod", NodeName |-> "", Tolerations |-> FALSE, Requests |-> r,
       GpuMilli |-> g[1], GpuCount |-> g[2], GpuType |-> t] :
          r \in PodRequests, g \in PodGpuRequests, t \in PodGpuTypes }

ScoreGpuLists == UNION {[1..n -> {300, 600, 1000}] : n \in 0..MaxGpus}

ScoreNodes ==
    [MilliCpuLeft : {2000, NodeMilliCpuCapacity}, MilliGpuLeftList : ScoreGpuLists,
     GpuType : NodeGpuTypes]

\* "node-2" is a name the node table does not hold.
ScoreNodeNames == {"node-1", "node-2"}

InitScore ==
    /\ nodeRes = NoNode
    /\ podRes = NoPod
    /\ typicalPods = <<>>
    /\ skylinePods = <<>>
    /\ allPods = <<>>
    /\ config = NoConfig
    /\ pc = "idle"
    /\ loc = NoLoc
    /\ ret = NoRet
    /\ dp = EmptyMemo
    /\ nodes \in [{"node-1"} -> ScoreNodes]
    /\ placed = NoPlaced
    /\ queue \in {<<p>> : p \in ScorePods}

ScoreCall ==
    /\ \E nodeName \in ScoreNodeNames :
           LET p == queue[1]
               r == Score(p, nodeName, nodes)
           IN  /\ ret' = [op |-> "Score", pod |-> p, nodeName |-> nodeName,
                          score |-> r.score, status |-> r.status, built |-> r.built]
               /\ nodes' = r.table
    /\ UNCHANGED <<nodeRes, podRes, typicalPods, skylinePods, allPods, config, pc, loc,
                   dp, placed, queue>>

AllocateGpuIdCall ==
    /\ \E nodeName \in DOMAIN nodes :
           /\ IsNodeAccessibleToPod(nodes[nodeName], GetPodResource(queue[1]))
           /\ LET p == queue[1]
                  r == allocateGpuIdBasedOnPWRScore(nodes[nodeName], GetPodResource(p))
              IN  /\ ret' = [op |-> "allocateGpuIdBasedOnPWRScore", pod |-> p,
                             nodeName |-> nodeName, gpuId |-> r.gpuId, built |-> r.built]
                  /\ nodes' = [nodes EXCEPT ![nodeName] = r.nodeRes]
    /\ UNCHANGED <<nodeRes, podRes, typicalPods, skylinePods, allPods, config, pc, loc,
                   dp, placed, queue>>

NextScore ==
    \/ ScoreCall
    \/ AllocateGpuIdCall

SpecScore == InitScore /\ [][NextScore]_vars

----------------------------------------------------------------------------
(* Claims about the PWR score plugin *)

IsSharePod(p) == p.GpuNumber = 1 /\ p.MilliGpu < 1000

\* The GPUs of node n (counted from 1) with at least p.MilliGpu left.
CandidateGpus(n, p) ==
    {i \in DOMAIN n.MilliGpuLeftList : n.MilliGpuLeftList[i] >= p.MilliGpu}

\* The score of placing share pod p on GPU i of node n.
CandidateScore(n, p, i) ==
    PWRFragScore(GetEnergyConsumptionNode(n),
                 GetEnergyConsumptionNode(
                     [n EXCEPT !.MilliCpuLeft = @ - p.MilliCpu,
                               !.MilliGpuLeftList[i] = @ - p.MilliGpu]))

BestCandidateScore(n, p) ==
    CHOOSE s \in {CandidateScore(n, p, i) : i \in CandidateGpus(n, p)} :
        \A i \in CandidateGpus(n, p) : CandidateScore(n, p, i) <= s

\* The lowest of the candidate GPUs with the highest score.
BestCandidateGpu(n, p) ==
    CHOOSE i \in CandidateGpus(n, p) :
        /\ CandidateScore(n, p, i) = BestCandidateScore(n, p)
        /\ \A j \in CandidateGpus(n, p) :
               CandidateScore(n, p, j) = BestCandidateScore(n, p) => i <= j

RetPodRes == GetPodResource(ret.pod)
RetNode == nodes[ret.nodeName]

C13_WitnessTie ==
    /\ ret.op = "allocateGpuIdBasedOnPWRScore"
    /\ IsSharePod(RetPodRes)
    /\ CandidateGpus(RetNode, RetPodRes) = {1, 2}
    /\ CandidateScore(RetNode, RetPodRes, 2) = CandidateScore(RetNode, RetPodRes, 1)
    /\ ret.gpuId = "0"

RetNodeRetrieved == ret.nodeName \in DOMAIN nodes

RetNodeAccessible == RetNodeRetrieved /\ IsNodeAccessibleToPod(RetNode, RetPodRes)

(* C14: Score returns (0, Error) whenever the node's state cannot be        *)
(* retrieved or the node is not accessible to the pod, for every pod, and   *)
(* returns Success only when both checks pass.                              *)
C14_ScoreErrors ==
    ret.op = "Score" =>
        /\ ~RetNodeAccessible => (ret.score = 0 /\ ret.status = "Error")
        /\ ret.status = "Success" => RetNodeAccessible

(* C14 as amended: for every pod that requests some resource, Score returns *)
(* (0, Error) whenever the node's state cannot be retrieved or the node is  *)
(* not accessible to the pod, and returns Success only when both checks     *)
(* pass; for a pod that requests no resource it returns (100, Success)      *)
(* whatever the node.                                                       *)
C14_ScoreErrorsOfRequestingPods ==
    ret.op = "Score" =>
        IF DOMAIN ret.pod.Requests = {}
        THEN ret.score = 100 /\ ret.status = "Success"
        ELSE /\ ~RetNodeAccessible => (ret.score = 0 /\ ret.status = "Error")
             /\ ret.status = "Success" => RetNodeAccessible

\* A pod with a CPU request met a node of another GPU model: (0, Error).
C14_Witness ==
    /\ ret.op = "Score"
    /\ DOMAIN ret.pod.Requests # {}
    /\ RetNodeRetrieved
    /\ ret.pod.GpuMilli > 0
    /\ ret.pod.GpuType # ""
    /\ ret.pod.GpuType # RetNode.GpuType
    /\ ret.score = 0
    /\ ret.status = "Error"

(* C15: Score and allocateGpuIdBasedOnPWRScore leave the node state as it   *)
(* was: milliCpuLeft and every entry of milliGpuLeftList of every node are  *)
(* the same after the call as before, on every branch.                      *)
C15_NoNodeMutation == [][nodes' = nodes]_vars

\* A share pod was scored on a node with two candidate GPUs: two post-placement
\* nodes were built, both different from the node, which is as it was drawn.
C15_Witness ==
    /\ ret.op = "Score"
    /\ ret.status = "Success"
    /\ Len(ret.built) = 2
    /\ ret.built[1] # RetNode
    /\ ret.built[2] # RetNode
    /\ RetNode \in ScoreNodes

----------------------------------------------------------------------------
(* pkg/algo: the pod ordering queues *)

MaxQueue == 3

\* NewGreedQueue, greed.go:19-42: the allocatable CPU and memory of the nodes
\* of the table, summed.
RECURSIVE TotalAllocatable(_, _, _)
TotalAllocatable(table, names, resourceName) ==
    IF names = {} THEN 0
    ELSE LET name == CHOOSE x \in names : TRUE
         IN  table[name].Allocatable[resourceName]
                 + TotalAllocatable(table, names \ {name}, resourceName)

NewGreedQueue(table) ==
    [cpu |-> TotalAllocatable(table, DOMAIN table, "cpu"),
     memory |-> TotalAllocatable(table, DOMAIN table, "memory")]

\* greed.go:77-91
Share(alloc, total) ==
    IF total = 0
    THEN IF alloc = 0 THEN RInt(0) ELSE RInt(1)
    ELSE Rat(alloc, total)

RMax(x, y) == IF RLess(x, y) THEN y ELSE x

\* greed.go:58-75
calculatePodShare(totalResource, pod) ==
    IF Cardinality(DOMAIN pod.Requests) = 0 THEN RInt(0)
    ELSE LET alloc(resourceName) ==
                 IF resourceName \in DOMAIN pod.Requests THEN pod.Requests[resourceName]
                 ELSE 0
         IN  RMax(RMax(RInt(0), Share(alloc("cpu"), totalResource.cpu)),
                  Share(alloc("memory"), totalResource.memory))

\* GreedQueue.Less comparing the shares the other way round.
GreedLessAscending(totalResource, a, b) ==
    IF a.NodeName # "" THEN TRUE
    ELSE IF b.NodeName # "" THEN FALSE
    ELSE RLess(calculatePodShare(totalResource, a), calculatePodShare(totalResource, b))

\* GreedQueue.Less, greed.go:44-56, of the pods at the two positions.
GreedLess(totalResource, a, b) ==
    IF a.NodeName # "" THEN TRUE
    ELSE IF b.NodeName # "" THEN FALSE
    ELSE RLess(calculatePodShare(totalResource, b), calculatePodShare(totalResource, a))

\* TolerationQueue.Less looking at the second pod instead of the first.
TolerationLessOfSecond(a, b) == b.Tolerations

\* TolerationQueue.Less, toleration.go:19-22, of the pods at the two positions.
TolerationLess(a, b) == a.Tolerations

\* The sort of a pod list of at most 12 pods, as sort.Sort and sort.Stable
\* both do it: each pod in turn is swapped towards the front for as long as
\* it is less than the pod before it. less[a, b] is Less of the positions of
\* the pods a and b.
RECURSIVE SiftDown(_, _, _)
SiftDown(list, j, less) ==
    IF j > 1 /\ less[list[j], list[j - 1]]
    THEN SiftDown([list EXCEPT ![j] = list[j - 1], ![j - 1] = list[j]], j - 1, less)
    ELSE list

RECURSIVE InsertionSort(_, _, _)
InsertionSort(list, i, less) ==
    IF i > Len(list) THEN list
    ELSE InsertionSort(SiftDown(list, i, less), i + 1, less)

PodsOf(list) == {list[i] : i \in DOMAIN list}

SortGreedQueue(table, pods) ==
    LET totalResource == NewGreedQueue(table)
    IN  InsertionSort(pods, 2, [a \in PodsOf(pods), b \in PodsOf(pods) |->
                                    GreedLess(totalResource, a, b)])

SortTolerationQueue(pods) ==
    InsertionSort(pods, 2, [a \in PodsOf(pods), b \in PodsOf(pods) |-> TolerationLess(a, b)])

----------------------------------------------------------------------------
(* Specification SpecQueue: a cluster and a pod list are drawn and the pod *)
(* list is sorted with GreedQueue or with TolerationQueue.                 *)

PodNames == <<"a", "b", "c", "d", "e">>

\* The pods of a queue, but for their names: bound or not, with or without
\* tolerations, and with requests of different dominant shares.
QueuePodShapes ==
    {s \in [NodeName : {"", "node-1"}, Tolerations : BOOLEAN,
            Requests : {EmptyRequests, "cpu" :> 1000,
                        ("cpu" :> 1000) @@ ("memory" :> 6144)},
            GpuMilli : {0}, GpuCount : {0}, GpuType : {""}] :
        s.Requests = EmptyRequests => ~s.Tolerations}

NamedPod(shape, name) ==
    [Name |-> name, NodeName |-> shape.NodeName, Tolerations |-> shape.Tolerations,
     Requests |-> shape.Requests, GpuMilli |-> shape.GpuMilli, GpuCount |-> shape.GpuCount,
     GpuType |-> shape.GpuType]

QueuePodLists ==
    UNION {{[i \in 1..n |-> NamedPod(shapes[i], PodNames[i])] :
                shapes \in [1..n -> QueuePodShapes]} : n \in 0..MaxQueue}

\* A cluster without nodes, and one with a node of 4000 CPU millis and 8192
\* memory units.
QueueClusters ==
    { NoNodes,
      "node-1" :> [Allocatable |-> [cpu |-> 4000, memory |-> 8192]] }

InitQueue ==
    /\ nodeRes = NoNode
    /\ podRes = NoPod
    /\ typicalPods = <<>>
    /\ skylinePods = <<>>
    /\ allPods = <<>>
    /\ config = NoConfig
    /\ pc = "idle"
    /\ loc = NoLoc
    /\ ret = NoRet
    /\ dp = EmptyMemo
    /\ nodes \in QueueClusters
    /\ placed = NoPlaced
    /\ queue \in QueuePodLists

SortGreedQueueCall ==
    /\ queue' = SortGreedQueue(nodes, queue)
    /\ ret' = [op |-> "GreedQueue", val |-> queue]
    /\ UNCHANGED <<nodeRes, podRes, typicalPods, skylinePods, allPods, config, pc, loc,
                   dp, nodes, placed>>

SortTolerationQueueCall ==
    /\ queue' = SortTolerationQueue(queue)
    /\ ret' = [op |-> "TolerationQueue", val |-> queue]
    /\ UNCHANGED <<nodeRes, podRes, typicalPods, skylinePods, allPods, config, pc, loc,
                   dp, nodes, placed>>

NextQueue ==
    \/ SortGreedQueueCall
    \/ SortTolerationQueueCall

SpecQueue == InitQueue /\ [][NextQueue]_vars

----------------------------------------------------------------------------
(* Claims about the pod ordering queues *)

\* The dominant share of a pod: the largest, over CPU and memory, of the
\* pod's request divided by the capacity of the cluster.
DominantShare(pod) ==
    LET total == NewGreedQueue(nodes)
        req(r) == IF r \in DOMAIN pod.Requests THEN pod.Requests[r] ELSE 0
        share(r) == IF total[r] = 0 THEN (IF req(r) = 0 THEN RInt(0) ELSE RInt(1))
                    ELSE Rat(req(r), total[r])
    IN  IF RLess(share("cpu"), share("memory")) THEN share("memory") ELSE share("cpu")

\* The queue holds the pods of list, each once.
SamePods(list) ==
    /\ Len(queue) = Len(list)
    /\ \A i \in DOMAIN list : \E j \in DOMAIN queue : queue[j] = list[i]

(* C18: after the pod list is sorted with GreedQueue, every pod with a      *)
(* non-empty nodeName precedes every pod with an empty nodeName, and the    *)
(* pods with an empty nodeName are in non-increasing order of dominant      *)
(* share. The sorted list holds the pods of the list that was sorted.       *)
C18_GreedQueueOrder ==
    ret.op = "GreedQueue" =>
        /\ SamePods(ret.val)
        /\ \A i, j \in DOMAIN queue :
               (queue[i].NodeName # "" /\ queue[j].NodeName = "") => i < j
        /\ \A i, j \in DOMAIN queue :
               (i < j /\ queue[i].NodeName = "" /\ queue[j].NodeName = "")
                   => ~RLess(DominantShare(queue[i]), DominantShare(queue[j]))

\* A list that began with an unbound pod of small share, then one of larger
\* share, then a bound pod, was sorted.
C18_Witness ==
    /\ ret.op = "GreedQueue"
    /\ Len(ret.val) = 3
    /\ ret.val[1].NodeName = ""
    /\ ret.val[2].NodeName = ""
    /\ ret.val[3].NodeName # ""
    /\ RLess(DominantShare(ret.val[1]), DominantShare(ret.val[2]))
    /\ queue[1] = ret.val[3]
    /\ queue[2] = ret.val[2]
    /\ queue[3] = ret.val[1]

(* C19: after the pod list is sorted with TolerationQueue, every pod that   *)
(* declares tolerations precedes every pod that declares none, whatever the *)
(* order of the list was. The sorted list holds the pods of the list that   *)
(* was sorted.                                                              *)
C19_TolerationQueueOrder ==
    ret.op = "TolerationQueue" =>
        /\ SamePods(ret.val)
        /\ \A i, j \in DOMAIN queue :
               (queue[i].Tolerations /\ ~queue[j].Tolerations) => i < j

\* A list with two pods without tolerations in front of one with was sorted.
C19_Witness ==
    /\ ret.op = "TolerationQueue"
    /\ Len(ret.val) = 3
    /\ ~ret.val[1].Tolerations
    /\ ~ret.val[2].Tolerations
    /\ ret.val[3].Tolerations
    /\ queue[1] = ret.val[3]

----------------------------------------------------------------------------
(* The scheduling pipeline and the simulation driver: RunCluster schedules *)
(* the pods of the sorted queue one at a time (filter, score, select,      *)
(* reserve, bind), and DescheduleCluster evicts placed pods, which are     *)
(* then scheduled again.                                                   *)

\* The weight of PWRScore in the scheduler profile.
PWRScoreWeight == 1000

\* The nodes in the lexicographic order of their names.
ClusterNodeOrder == <<"node-1", "node-2">>

NodePosition(name) == CHOOSE k \in DOMAIN ClusterNodeOrder : ClusterNodeOrder[k] = name

PodMemory(pod) == IF "memory" \in DOMAIN pod.Requests THEN pod.Requests["memory"] ELSE 0

\* Filter: the node is accessible to the pod (Open-Gpu-Share) and has the
\* CPU, the memory and the GPUs the pod asks for; a pod with a nodeName is
\* considered for that node only.
FeasibleNode(table, name, pod) ==
    /\ pod.NodeName = "" \/ pod.NodeName = name
    /\ IsNodeAccessibleToPod(table[name], GetPodResource(pod))
    /\ Sub(table[name], GetPodResource(pod)).ok
    /\ table[name].MemoryLeft >= PodMemory(pod)

\* Score: PWRScore on every feasible node in turn, times its weight.
\* [table, scores]: the node table as the calls leave it, and the score of
\* each feasible node.
RECURSIVE RunScorePlugins(_, _, _, _, _)
RunScorePlugins(pod, feasible, k, table, scores) ==
    IF k > Len(ClusterNodeOrder) THEN [table |-> table, scores |-> scores]
    ELSE LET name == ClusterNodeOrder[k]
         IN  IF name \notin feasible
             THEN RunScorePlugins(pod, feasible, k + 1, table, scores)
             ELSE LET r == Score(pod, name, table)
                  IN  RunScorePlugins(pod, feasible, k + 1, r.table,
                                      scores @@ (name :> r.score * PWRScoreWeight))

\* Select: the feasible node of highest score, the lowest name among equals.
SelectNode(candidates, scores) ==
    CHOOSE name \in candidates :
        \A other \in candidates :
            \/ scores[other] < scores[name]
            \/ scores[other] = scores[name] /\ NodePosition(name) <= NodePosition(other)

\* The GPU index a decimal gpuId stands for.
ParseGpuId(gpuId, n) ==
    CHOOSE i \in 0..(Len(n.MilliGpuLeftList) - 1) : ToString(i) = gpuId

\* Reserve: [ok, gpuIndexes], the GPU indexes (from 0) picked for the pod.
ReserveGpus(n, pod) ==
    LET p == GetPodResource(pod)
    IN  IF p.MilliGpu = 0 \/ p.GpuNumber = 0
        THEN [ok |-> TRUE, gpuIndexes |-> <<>>]
        ELSE IF p.GpuNumber = 1 /\ p.MilliGpu < MILLI
        THEN LET gpuId == allocateGpuIdBasedOnPWRScore(n, p).gpuId
             IN  IF gpuId = "" THEN [ok |-> FALSE, gpuIndexes |-> <<>>]
                 ELSE [ok |-> TRUE, gpuIndexes |-> <<ParseGpuId(gpuId, n)>>]
        ELSE LET ids == ExclusiveGpuLoop(n.MilliGpuLeftList, 1, p.GpuNumber, <<>>)
             IN  [ok |-> Len(ids) = p.GpuNumber, gpuIndexes |-> ids]

IsReserved(gpuIndexes, k) == \E i \in DOMAIN gpuIndexes : gpuIndexes[i] = k - 1

\* Bind: the pod's CPU, memory and GPU millis are deducted from the node, the
\* GPU millis at the reserved indexes.
BindPod(n, pod, gpuIndexes) ==
    [n EXCEPT !.MilliCpuLeft = @ - GetPodResource(pod).MilliCpu,
              !.MemoryLeft = @ - PodMemory(pod),
              !.MilliGpuLeftList =
                  [k \in DOMAIN @ |-> IF IsReserved(gpuIndexes, k)
                                      THEN @[k] - GetPodResource(pod).MilliGpu
                                      ELSE @[k]]]

\* Unbind giving the GPU millis back to the lowest-indexed GPUs of the node
\* instead of the GPUs of the placement.
UnbindPodLowestGpus(n, pod, gpuIndexes) ==
    [n EXCEPT !.MilliCpuLeft = @ + GetPodResource(pod).MilliCpu,
              !.MemoryLeft = @ + PodMemory(pod),
              !.MilliGpuLeftList =
                  [k \in DOMAIN @ |-> IF k <= Len(gpuIndexes)
                                      THEN @[k] + GetPodResource(pod).MilliGpu
                                      ELSE @[k]]]

\* Unbind: what the placement deducted is given back.
UnbindPod(n, pod, gpuIndexes) ==
    [n EXCEPT !.MilliCpuLeft = @ + GetPodResource(pod).MilliCpu,
              !.MemoryLeft = @ + PodMemory(pod),
              !.MilliGpuLeftList =
                  [k \in DOMAIN @ |-> IF IsReserved(gpuIndexes, k)
                                      THEN @[k] + GetPodResource(pod).MilliGpu
                                      ELSE @[k]]]

Unscheduled == [nodeName |-> "", gpuIndexes |-> <<>>]

\* Select, reserve and bind: on a failed reservation the node is dropped and
\* the next best is tried; with no node left the pod is unscheduled.
RECURSIVE SelectReserveBind(_, _, _, _)
SelectReserveBind(table, pod, candidates, scores) ==
    IF candidates = {} THEN [table |-> table, placement |-> Unscheduled]
    ELSE LET name == SelectNode(candidates, scores)
             r == ReserveGpus(table[name], pod)
         IN  IF r.ok
             THEN [table |-> [table EXCEPT ![name] = BindPod(@, pod, r.gpuIndexes)],
                   placement |-> [nodeName |-> name, gpuIndexes |-> r.gpuIndexes]]
             ELSE SelectReserveBind(table, pod, candidates \ {name}, scores)

\* The scheduling cycle of one pod: [table, placement].
SchedulePod(table, pod) ==
    LET feasible == {name \in DOMAIN table : FeasibleNode(table, name, pod)}
        scored == RunScorePlugins(pod, feasible, 1, table, [x \in {} |-> 0])
    IN  SelectReserveBind(scored.table, pod, feasible, scored.scores)

\* RunCluster: the pods of the list scheduled in order, from position k on.
\* [table, placed].
RECURSIVE RunCluster(_, _, _, _)
RunCluster(table, placements, pods, k) ==
    IF k > Len(pods) THEN [table |-> table, placed |-> placements]
    ELSE LET r == SchedulePod(table, pods[k])
         IN  RunCluster(r.table, placements @@ (pods[k].Name :> r.placement), pods, k + 1)

----------------------------------------------------------------------------
(* Specification SpecCluster: a pod list is drawn; the driver sorts it     *)
(* with GreedQueue, schedules the pods in the order of the queue, and      *)
(* evicts placed pods, which are scheduled again.                          *)

\* Two nodes, of two GPUs and of one GPU, with nothing placed on them.
ClusterNodes ==
    ("node-1" :> [Allocatable |-> [cpu |-> NodeMilliCpuCapacity, memory |-> 8192],
                  MilliCpuLeft |-> NodeMilliCpuCapacity, MemoryLeft |-> 8192,
                  MilliGpuLeftList |-> <<MILLI, MILLI>>, GpuType |-> "V100"])
    @@ ("node-2" :> [Allocatable |-> [cpu |-> NodeMilliCpuCapacity, memory |-> 8192],
                     MilliCpuLeft |-> NodeMilliCpuCapacity, MemoryLeft |-> 8192,
                     MilliGpuLeftList |-> <<MILLI>>, GpuType |-> "V100"])

ClusterPod(name, nodeName, requests, gpuMilli, gpuCount) ==
    [Name |-> name, NodeName |-> nodeName, Tolerations |-> FALSE, Requests |-> requests,
     GpuMilli |-> gpuMilli, GpuCount |-> gpuCount, GpuType |-> ""]

\* The pods of the workload: a, b and c have the same dominant share; e and
\* f come with the node they are bound to.
ClusterPods ==
    { ClusterPod("a", "", "cpu" :> 1000, 500, 1),
      ClusterPod("b", "", "cpu" :> 1000, 1000, 1),
      ClusterPod("c", "", ("cpu" :> 1000) @@ ("memory" :> 1024), 300, 1),
      ClusterPod("d", "", ("cpu" :> 3000) @@ ("memory" :> 6144), 0, 0),
      ClusterPod("e", "node-1", "cpu" :> 1000, 300, 1),
      ClusterPod("f", "node-1", "cpu" :> 3000, 1000, 2) }

\* The lists of at most MaxQueue different pods of the workload.
ClusterPodLists ==
    UNION {{l \in [1..n -> ClusterPods] : \A i, j \in 1..n : l[i] = l[j] => i = j} :
               n \in 0..MaxQueue}

InitCluster ==
    /\ nodeRes = NoNode
    /\ podRes = NoPod
    /\ typicalPods = <<>>
    /\ skylinePods = <<>>
    /\ allPods \in ClusterPodLists
    /\ config = NoConfig
    /\ pc = "SortClusterPods"
    /\ loc = NoLoc
    /\ ret = NoRet
    /\ dp = EmptyMemo
    /\ nodes = ClusterNodes
    /\ placed = NoPlaced
    /\ queue = <<>>

SortClusterPods ==
    /\ pc = "SortClusterPods"
    /\ queue' = SortGreedQueue(nodes, allPods)
    /\ pc' = "RunCluster"
    /\ ret' = [op |-> "SortClusterPods"]
    /\ UNCHANGED <<nodeRes, podRes, typicalPods, skylinePods, allPods, config, loc,
                   dp, nodes, placed>>

\* The first pod of the queue that is neither placed nor unscheduled.
IsNextPod(k) ==
    /\ queue[k].Name \notin DOMAIN placed
    /\ \A j \in 1..(k - 1) : queue[j].Name \in DOMAIN placed

RunClusterStep ==
    /\ pc = "RunCluster"
    /\ \E k \in DOMAIN queue :
           /\ IsNextPod(k)
           /\ LET r == SchedulePod(nodes, queue[k])
              IN  /\ nodes' = r.table
                  /\ placed' = placed @@ (queue[k].Name :> r.placement)
                  /\ ret' = [op |-> "SchedulePod", pod |-> queue[k],
                             placement |-> r.placement]
    /\ UNCHANGED <<nodeRes, podRes, typicalPods, skylinePods, allPods, config, pc, loc,
                   dp, queue>>

DescheduleClusterStep ==
    /\ pc = "RunCluster"
    /\ \E k \in DOMAIN queue :
           /\ queue[k].Name \in DOMAIN placed
           /\ placed[queue[k].Name] # Unscheduled
           /\ LET placement == placed[queue[k].Name]
              IN  /\ nodes' = [nodes EXCEPT ![placement.nodeName] =
                                   UnbindPod(@, queue[k], placement.gpuIndexes)]
                  /\ placed' = [name \in DOMAIN placed \ {queue[k].Name} |-> placed[name]]
                  /\ ret' = [op |-> "DeschedulePod", pod |-> queue[k],
                             placement |-> placement]
    /\ UNCHANGED <<nodeRes, podRes, typicalPods, skylinePods, allPods, config, pc, loc,
                   dp, queue>>

NextCluster ==
    \/ SortClusterPods
    \/ RunClusterStep
    \/ DescheduleClusterStep

SpecCluster == InitCluster /\ [][NextCluster]_vars

----------------------------------------------------------------------------
(* Claims about the placements *)

\* The pods of the queue placed on the node called name.
PlacedOn(name) ==
    {k \in DOMAIN queue : queue[k].Name \in DOMAIN placed
                          /\ placed[queue[k].Name].nodeName = name}

\* The pods of the queue placed on the node called name with GPU g (from 0)
\* among their GPU indexes.
PlacedOnGpu(name, g) ==
    {k \in PlacedOn(name) : IsReserved(placed[queue[k].Name].gpuIndexes, g + 1)}

ReversePods(pods) == [i \in DOMAIN pods |-> pods[Len(pods) + 1 - i]]

(* C20: the pods of the input list, given in the opposite order and sorted  *)
(* with GreedQueue, are scheduled in the same order and get the same        *)
(* placements as those of the input list, also when some pods have the      *)
(* same dominant share or are bound already.                                *)
C20_DeterminismUnderReorder ==
    ret.op = "SortClusterPods" =>
        LET other == SortGreedQueue(nodes, ReversePods(allPods))
        IN  /\ queue = other
            /\ RunCluster(nodes, NoPlaced, queue, 1).placed
                   = RunCluster(nodes, NoPlaced, other, 1).placed

----------------------------------------------------------------------------
(* pkg/simulator/core.go: Simulate, and the end of Applier.Run that calls  *)
(* it. The methods of the simulator are calls whose outcome (an error, a   *)
(* list of unscheduled pods) is any outcome; loc.calls lists the calls in  *)
(* the order they are made.                                                *)

MaxApps == 2
MaxDaemonSets == 1

\* core.go:135
RunsTuning(customConfig) == RLess(RInt(0), customConfig.WorkloadTuningRatio)

\* The test of core.go:184 and core.go:245 with >= in the place of >.
RunsInflationFromOne(customConfig) == ~RLess(customConfig.WorkloadInflationRatio, RInt(1))

\* core.go:184 and core.go:245
RunsInflation(customConfig) == RLess(RInt(1), customConfig.WorkloadInflationRatio)

\* core.go:210
RunsDeschedule(customConfig) == customConfig.DeschedulePolicy # ""

\* failedPods = unscheduledPods in the place of the append.
ReplaceFailedPods(failedPods, unscheduledPods) == unscheduledPods

\* failedPods = append(failedPods, unscheduledPods...), core.go:148, 213, 258
AppendFailedPods(failedPods, unscheduledPods) == failedPods \o unscheduledPods

\* The exports of core.go:155-180 and core.go:217-242: the calls made, given
\* whether the directories could be made.
ExportCalls(customConfig, yamlDirMade, csvDirMade, csvPodCall) ==
    (IF customConfig.PodSnapshotYamlFilePrefix # "" /\ yamlDirMade
     THEN <<"ExportPodSnapshotInYaml">> ELSE <<>>)
    \o (IF customConfig.NodeSnapshotCSVFilePrefix # "" /\ csvDirMade
        THEN <<"ExportNodeSnapshotInCSV", csvPodCall>> ELSE <<>>)

\* return nil, err: the deferred Close runs once the simulator exists.
SimulateError(calls, err, closes) ==
    [op |-> "Simulate", result |-> "nil", err |-> err,
     calls |-> IF closes THEN Append(calls, "Close") ELSE calls]

CustomConfigs ==
    [WorkloadTuningRatio : {RInt(0), Rat(1, 2)},
     WorkloadInflationRatio : {RInt(1), Rat(3, 2)},
     NewWorkloadConfig : {"", "new-workload"},
     DeschedulePolicy : {"", "fragOnePod"},
     PodSnapshotYamlFilePrefix : {"", "yaml-out"},
     NodeSnapshotCSVFilePrefix : {"", "csv-out"}]

\* The unscheduled pods a call can return.
RunClusterUnscheduled == {<<>>, <<"r1">>, <<"r1", "r2">>}
DescheduleClusterUnscheduled == {<<>>, <<"d1">>}
ScheduleAppUnscheduled(app) == {<<>>, <<"s" \o ToString(app)>>}

InitSimulate ==
    /\ nodeRes = NoNode
    /\ podRes = NoPod
    /\ typicalPods = <<>>
    /\ skylinePods = <<>>
    /\ allPods = <<>>
    /\ config \in CustomConfigs
    /\ pc = "New"
    /\ \E apps \in 0..MaxApps, daemonSets \in 0..MaxDaemonSets :
           loc = [calls |-> <<>>, pods |-> <<"cluster.Pods">>, handed |-> <<>>,
                  failedPods |-> <<>>, unscheduledPods |-> <<>>, returned |-> <<>>,
                  apps |-> apps, daemonSets |-> daemonSets, app |-> 1, daemonSet |-> 1]
    /\ ret = NoRet
    /\ NoCluster

SimulateStep(nextPc, nextLoc) ==
    /\ pc' = nextPc
    /\ loc' = nextLoc
    /\ UNCHANGED <<clusterVars, nodeRes, podRes, typicalPods, skylinePods, allPods, config, ret>>

SimulateReturn(result) ==
    /\ pc' = "Returned"
    /\ loc' = [loc EXCEPT !.calls = result.calls]
    /\ ret' = result
    /\ UNCHANGED <<clusterVars, nodeRes, podRes, typicalPods, skylinePods, allPods, config>>

\* core.go:87-90
SimulateNew ==
    /\ pc = "New"
    /\ \/ SimulateReturn(SimulateError(Append(loc.calls, "New"), "New", FALSE))
       \/ SimulateStep("GetValidPodExcludeDaemonSet", [loc EXCEPT !.calls = Append(@, "New")])

\* core.go:102-113
SimulateGetValidPods ==
    /\ pc = "GetValidPodExcludeDaemonSet"
    /\ LET calls == Append(loc.calls, "GetValidPodExcludeDaemonSet")
       IN  \/ SimulateReturn(SimulateError(calls, "GetValidPodExcludeDaemonSet", TRUE))
           \/ SimulateStep("MakeValidPodsByDaemonset",
                  [loc EXCEPT !.calls = calls \o <<"SetWorkloadPods", "SetTypicalPods",
                                                    "SetSkylinePods", "ClusterGpuFragReport">>,
                              !.pods = Append(@, "valid")])

\* core.go:117-126, one daemon set of the loop, or the exit of the loop
SimulateDaemonSets ==
    /\ pc = "MakeValidPodsByDaemonset"
    /\ IF loc.daemonSet > loc.daemonSets
       THEN SimulateStep("SortClusterPods", loc)
       ELSE LET calls == Append(loc.calls, "MakeValidPodsByDaemonset")
            IN  \/ SimulateReturn(SimulateError(calls, "MakeValidPodsByDaemonset", TRUE))
                \/ SimulateStep("MakeValidPodsByDaemonset",
                       [loc EXCEPT !.calls = calls, !.daemonSet = @ + 1,
                                   !.pods = Append(@, "daemonset")])

\* core.go:131-133
SimulateSortClusterPods ==
    /\ pc = "SortClusterPods"
    /\ SimulateStep("TunePodsByNodeTotalResource",
           [loc EXCEPT !.calls = @ \o <<"SortClusterPods", "RecordPodTotalResourceReq",
                                        "RecordNodeTotalResource">>,
                       !.pods = Append(@, "sorted")])

\* core.go:135-138
SimulateTunePods ==
    /\ pc = "TunePodsByNodeTotalResource"
    /\ IF RunsTuning(config)
       THEN SimulateStep("RunCluster",
                [loc EXCEPT !.calls = Append(@, "TunePodsByNodeTotalResource"),
                            !.pods = Append(@, "tuned")])
       ELSE SimulateStep("RunCluster", loc)

\* core.go:143-150
SimulateRunCluster ==
    /\ pc = "RunCluster"
    /\ LET calls == Append(loc.calls, "RunCluster")
       IN  \/ SimulateReturn(SimulateError(calls, "RunCluster", TRUE))
           \/ \E unscheduledPods \in RunClusterUnscheduled :
                  SimulateStep("ExportInitSchedule",
                      [loc EXCEPT !.calls = calls \o <<"ReportFailedPods",
                                                        "ClusterAnalysis(InitSchedule)">>,
                                  !.handed = loc.pods,
                                  !.unscheduledPods = unscheduledPods,
                                  !.returned = Append(@, unscheduledPods),
                                  !.failedPods = AppendFailedPods(@, unscheduledPods)])

\* core.go:155-180
SimulateExportInitSchedule ==
    /\ pc = "ExportInitSchedule"
    /\ \E yamlDirMade, csvDirMade \in BOOLEAN :
           SimulateStep("ScheduleInflation",
               [loc EXCEPT !.calls = @ \o ExportCalls(config, yamlDirMade, csvDirMade,
                                                      "ExportPodSnapshotInCSV")])

\* core.go:184-187
SimulateScheduleInflation ==
    /\ pc = "ScheduleInflation"
    /\ IF RunsInflation(config)
       THEN SimulateStep("NewWorkload",
                [loc EXCEPT !.calls =
                     Append(@, "RunWorkloadInflationEvaluation(ScheduleInflation)")])
       ELSE SimulateStep("NewWorkload", loc)

\* core.go:191-205
SimulateNewWorkload ==
    /\ pc = "NewWorkload"
    /\ IF config.NewWorkloadConfig = ""
       THEN SimulateStep("DescheduleCluster", loc)
       ELSE LET created == Append(loc.calls, "CreateClusterResourceFromClusterConfig")
                valid == Append(created, "GetValidPodExcludeDaemonSet")
            IN  \/ SimulateReturn(SimulateError(created,
                                                "CreateClusterResourceFromClusterConfig", TRUE))
                \/ SimulateReturn(SimulateError(valid, "GetValidPodExcludeDaemonSet", TRUE))
                \/ SimulateStep("DescheduleCluster",
                       [loc EXCEPT !.calls = valid \o <<"SetWorkloadPods", "SetTypicalPods",
                                                        "ClusterGpuFragReport">>])

\* core.go:210-243
SimulateDescheduleCluster ==
    /\ pc = "DescheduleCluster"
    /\ IF RunsDeschedule(config)
       THEN \E unscheduledPods \in DescheduleClusterUnscheduled,
               yamlDirMade, csvDirMade \in BOOLEAN :
                SimulateStep("DescheduleInflation",
                    [loc EXCEPT !.calls = @ \o <<"DescheduleCluster",
                                                 "ClusterAnalysis(PostDeschedule)",
                                                 "ClusterGpuFragReport">>
                                            \o ExportCalls(config, yamlDirMade, csvDirMade,
                                                           "ExportNodeSnapshotInCSV"),
                                !.unscheduledPods = unscheduledPods,
                                !.returned = Append(@, unscheduledPods),
                                !.failedPods = AppendFailedPods(@, unscheduledPods)])
       ELSE SimulateStep("DescheduleInflation", loc)

\* core.go:244-248
SimulateDescheduleInflation ==
    /\ pc = "DescheduleInflation"
    /\ IF (config.NewWorkloadConfig # "" \/ RunsDeschedule(config)) /\ RunsInflation(config)
       THEN SimulateStep("ScheduleApp",
                [loc EXCEPT !.calls =
                     Append(@, "RunWorkloadInflationEvaluation(DescheduleInflation)")])
       ELSE SimulateStep("ScheduleApp", loc)

\* core.go:253-267, one app of the loop, or the return after the loop
SimulateScheduleApp ==
    /\ pc = "ScheduleApp"
    /\ IF loc.app > loc.apps
       THEN SimulateReturn(
                [op |-> "Simulate",
                 result |-> [UnscheduledPods |-> loc.failedPods, NodeStatus |-> "nodeStatus"],
                 err |-> "nil",
                 calls |-> loc.calls \o <<"GetClusterNodeStatus", "Close">>])
       ELSE LET calls == Append(loc.calls, "ScheduleApp")
            IN  \/ SimulateReturn(SimulateError(calls, "ScheduleApp", TRUE))
                \/ \E unscheduledPods \in ScheduleAppUnscheduled(loc.app) :
                       SimulateStep("ScheduleApp",
                           [loc EXCEPT !.calls = calls, !.app = @ + 1,
                                       !.unscheduledPods = unscheduledPods,
                                       !.returned = Append(@, unscheduledPods),
                                       !.failedPods = AppendFailedPods(@, unscheduledPods)])

\* Applier.Run from the return of Simulate on, apply.go:216-245
ApplierRun ==
    /\ pc = "Returned"
    /\ pc' = "Done"
    /\ \E satisfied \in {"ok", "not ok", "error"} :
           ret' = [op |-> "Applier.Run", simulate |-> ret,
                   err |-> IF ret.err # "nil" THEN ret.err
                           ELSE IF Len(ret.result.UnscheduledPods) = 0
                                   /\ satisfied = "error"
                           THEN "satisfyResourceSetting"
                           ELSE "nil"]
    /\ UNCHANGED <<clusterVars, nodeRes, podRes, typicalPods, skylinePods, allPods, config, loc>>

NextSimulate ==
    \/ SimulateNew
    \/ SimulateGetValidPods
    \/ SimulateDaemonSets
    \/ SimulateSortClusterPods
    \/ SimulateTunePods
    \/ SimulateRunCluster
    \/ SimulateExportInitSchedule
    \/ SimulateScheduleInflation
    \/ SimulateNewWorkload
    \/ SimulateDescheduleCluster
    \/ SimulateDescheduleInflation
    \/ SimulateScheduleApp
    \/ ApplierRun

SpecSimulate == InitSimulate /\ [][NextSimulate]_vars

----------------------------------------------------------------------------
(* Claims about Simulate *)

Called(name) == \E i \in DOMAIN loc.calls : loc.calls[i] = name

\* The position of the first call of name.
CallPosition(name) ==
    CHOOSE i \in DOMAIN loc.calls :
        loc.calls[i] = name /\ \A j \in 1..(i - 1) : loc.calls[j] # name

IsInflationCall(call) ==
    call \in {"RunWorkloadInflationEvaluation(ScheduleInflation)",
              "RunWorkloadInflationEvaluation(DescheduleInflation)"}

(* C21: when RunCluster is called, TunePodsByNodeTotalResource has been     *)
(* called exactly if workloadTuningConfig.ratio > 0, its call came before   *)
(* the call of SortClusterPods, and the pod list handed to RunCluster is    *)
(* the list as SortClusterPods left it.                                     *)
C21_TuneBeforeSort ==
    Called("RunCluster") =>
        /\ Called("TunePodsByNodeTotalResource")
               <=> RLess(RInt(0), config.WorkloadTuningRatio)
        /\ Called("TunePodsByNodeTotalResource") =>
               CallPosition("TunePodsByNodeTotalResource") < CallPosition("SortClusterPods")
        /\ loc.handed # <<>> => loc.handed[Len(loc.handed)] = "sorted"

\* Simulate is past the step that deschedules.
PastDeschedule == pc \in {"DescheduleInflation", "ScheduleApp"}

DescheduleExactlyIfPolicy ==
    /\ Called("DescheduleCluster") => config.DeschedulePolicy # ""
    /\ PastDeschedule /\ config.DeschedulePolicy # "" => Called("DescheduleCluster")

InflationOnlyAboveOne ==
    \A i \in DOMAIN loc.calls :
        IsInflationCall(loc.calls[i]) => RLess(RInt(1), config.WorkloadInflationRatio)

(* C22: DescheduleCluster runs exactly when descheduleConfig.policy is      *)
(* non-empty, the workload-inflation evaluation runs only when              *)
(* workloadInflationConfig.ratio > 1, and when both are configured no       *)
(* inflation evaluation runs before DescheduleCluster.                      *)
C22_DescheduleBeforeInflation ==
    /\ DescheduleExactlyIfPolicy
    /\ InflationOnlyAboveOne
    /\ (config.DeschedulePolicy # "" /\ RLess(RInt(1), config.WorkloadInflationRatio)) =>
           \A i \in DOMAIN loc.calls :
               IsInflationCall(loc.calls[i]) =>
                   \E j \in 1..(i - 1) : loc.calls[j] = "DescheduleCluster"

(* C22, amended: DescheduleCluster runs exactly when descheduleConfig.policy *)
(* is non-empty, the workload-inflation evaluation runs only when            *)
(* workloadInflationConfig.ratio > 1, and when both are configured one       *)
(* inflation evaluation runs after RunCluster and before DescheduleCluster   *)
(* and a second one after DescheduleCluster.                                 *)
C22_InflationAroundDeschedule ==
    /\ DescheduleExactlyIfPolicy
    /\ InflationOnlyAboveOne
    /\ (pc = "ScheduleApp" /\ config.DeschedulePolicy # ""
            /\ RLess(RInt(1), config.WorkloadInflationRatio)) =>
           /\ Called("RunWorkloadInflationEvaluation(ScheduleInflation)")
           /\ Called("RunWorkloadInflationEvaluation(DescheduleInflation)")
           /\ CallPosition("RunCluster")
                  < CallPosition("RunWorkloadInflationEvaluation(ScheduleInflation)")
           /\ CallPosition("RunWorkloadInflationEvaluation(ScheduleInflation)")
                  < CallPosition("DescheduleCluster")
           /\ CallPosition("DescheduleCluster")
                  < CallPosition("RunWorkloadInflationEvaluation(DescheduleInflation)")
           /\ Cardinality({i \in DOMAIN loc.calls : IsInflationCall(loc.calls[i])}) = 2

\* Simulate is past both inflation steps with a policy and a ratio of 3/2.
C22_Witness ==
    /\ pc = "ScheduleApp"
    /\ config.DeschedulePolicy # ""
    /\ config.WorkloadInflationRatio = Rat(3, 2)
    /\ Called("DescheduleCluster")
    /\ Called("RunWorkloadInflationEvaluation(DescheduleInflation)")

RECURSIVE ConcatAll(_)
ConcatAll(lists) == IF lists = <<>> THEN <<>> ELSE Head(lists) \o ConcatAll(Tail(lists))

\* The calls of Simulate that can report an error.
FailingCalls ==
    {"New", "GetValidPodExcludeDaemonSet", "MakeValidPodsByDaemonset",
     "CreateClusterResourceFromClusterConfig", "RunCluster", "ScheduleApp"}

\* The calls of a returned Simulate but for the deferred Close.
CallsBeforeClose(calls) ==
    IF calls # <<>> /\ calls[Len(calls)] = "Close" THEN SubSeq(calls, 1, Len(calls) - 1)
    ELSE calls

(* C23: Simulate returns an error, with a nil result and without a later    *)
(* step, only when construction, pod ingest or daemon set expansion, the    *)
(* loading of the new workload, RunCluster or ScheduleApp reported one;     *)
(* otherwise it returns a result whose unscheduledPods are the unscheduled  *)
(* pods of RunCluster, DescheduleCluster and every ScheduleApp, in order;   *)
(* and Applier.Run then returns nil even when there are unscheduled pods.   *)
C23_PerPodFailuresDoNotAbort ==
    /\ ret.op = "Simulate" =>
           IF ret.err # "nil"
           THEN /\ ret.result = "nil"
                /\ ret.err \in FailingCalls
                /\ LET calls == CallsBeforeClose(ret.calls)
                   IN  calls[Len(calls)] = ret.err
           ELSE /\ ret.result.UnscheduledPods = ConcatAll(loc.returned)
                /\ Len(loc.returned) = loc.apps + 1
                                       + (IF config.DeschedulePolicy # "" THEN 1 ELSE 0)
    /\ ret.op = "Applier.Run" =>
           /\ ret.simulate.err # "nil" => ret.err = ret.simulate.err
           /\ (ret.simulate.err = "nil" /\ ret.simulate.result.UnscheduledPods # <<>>)
                  => ret.err = "nil"

\* Applier.Run returned nil after a Simulate in which RunCluster,
\* DescheduleCluster and two apps all left pods unscheduled.
C23_Witness ==
    /\ ret.op = "Applier.Run"
    /\ ret.err = "nil"
    /\ ret.simulate.err = "nil"
    /\ ret.simulate.result.UnscheduledPods = <<"r1", "r2", "d1", "s1", "s2">>

----------------------------------------------------------------------------
(* Specification SpecDistiller: a configuration is drawn and the workload  *)
(* is set; SetTypicalPods applies GetTypicalPods to it and, once it has    *)
(* returned, SetSkylinePods applies GetSkylinePods (core.go:110-112). The  *)
(* loop of GetTypicalPods, once entered, keeps running.                    *)

\* The workloads the distiller is applied to: the empty one, CPU-only pods
\* alone, and GPU pods of one, two and three shapes.
DistillerWorkloads ==
    { <<>>, <<CpuOnlyPod>>, <<CpuOnlyPod, CpuOnlyPod>>, <<OneGpuPod>>,
      <<CpuOnlyPod, OneGpuPod, OneGpuPod>>, <<ShareGpuPod, TwoGpuPod>>,
      <<ShareGpuPod, OneGpuPod, TwoGpuPod, OneGpuPod>> }

InitDistiller ==
    /\ nodeRes = NoNode
    /\ podRes = NoPod
    /\ typicalPods = <<>>
    /\ skylinePods = <<>>
    /\ allPods = <<>>
    /\ config \in TypicalPodsConfigs
    /\ pc = "SetWorkloadPods"
    /\ loc = NoLoc
    /\ ret = NoRet
    /\ NoCluster

\* core.go:110: the workload the distiller is applied to.
SetWorkloadPodsStep ==
    /\ pc = "SetWorkloadPods"
    /\ allPods' \in DistillerWorkloads
    /\ pc' = "idle"
    /\ UNCHANGED <<clusterVars, nodeRes, podRes, typicalPods, skylinePods, config, loc, ret>>

SetSkylinePodsStep ==
    /\ pc = "done"
    /\ pc' = "skyline"
    /\ ret' = [op |-> "GetSkylinePods", val |-> GetSkylinePods(allPods)]
    /\ skylinePods' = GetSkylinePods(allPods)
    /\ UNCHANGED <<clusterVars, nodeRes, podRes, typicalPods, allPods, config, loc>>

NextDistiller ==
    \/ SetWorkloadPodsStep
    \/ GetTypicalPodsBegin
    \/ GetTypicalPodsGrow
    \/ GetTypicalPodsReturn
    \/ SetSkylinePodsStep

SpecDistiller ==
    /\ InitDistiller
    /\ [][NextDistiller]_vars
    /\ WF_vars(GetTypicalPodsGrow)
    /\ WF_vars(GetTypicalPodsReturn)

\* The aggregation loop of GetTypicalPods counts no pod of the workload: the
\* workload is empty or all its pods are excluded as CPU-only.
NothingCounted == \A k \in DOMAIN allPods : ~IsCounted(allPods[k], config)

(* C24: on a workload of which no pod is counted (an empty one, or one of   *)
(* CPU-only pods that are excluded) GetTypicalPods leaves its loop and      *)
(* returns the empty list, and on an empty workload GetSkylinePods returns  *)
(* the empty list.                                                          *)
C24_EmptyWorkload ==
    /\ []((ret.op = "GetTypicalPods" /\ NothingCounted) => ret.val = <<>>)
    /\ []((ret.op = "GetSkylinePods" /\ allPods = <<>>) => ret.val = <<>>)
    /\ (pc = "loop" /\ NothingCounted) ~> (pc = "done")

\* GetTypicalPods has returned the empty list on a workload of excluded
\* CPU-only pods.
C24_Witness ==
    /\ ret.op = "GetTypicalPods"
    /\ allPods # <<>>
    /\ NothingCounted
    /\ ret.val = <<>>

\* Both calls have returned on the empty workload.
C24_WitnessEmpty ==
    /\ ret.op = "GetSkylinePods"
    /\ allPods = <<>>
    /\ skylinePods = <<>>

(* C26: GetTypicalPods terminates for every workload and every              *)
(* configuration: a call that has entered the prefix-growing loop leaves    *)
(* it and returns.                                                          *)
C26_GetTypicalPodsTerminates == (pc = "loop") ~> (pc = "done")

----------------------------------------------------------------------------
(* pkg/utils/frag.go: FragAmount.AddGamma and AddFragAmount. The Data of a *)
(* FragAmount is a function on 0..len-1. The method works on its own copy  *)
(* of the receiver, whose Data shares the caller's backing array until it  *)
(* is assigned to.                                                         *)

DataLen(data) == Cardinality(DOMAIN data)

\* frag.go:66-80: [err, caller], the caller's fa.Data after the call.
AddGamma(fa, faOther, gamma) ==
    LET made == DataLen(fa.Data) = 0
        data == IF made THEN [i \in 0..(Cardinality(DOMAIN FragRatioDataMap) - 1) |-> RInt(0)]
                ELSE fa.Data
    IN  IF DataLen(data) # DataLen(faOther.Data)
        THEN [err |-> "does not match", caller |-> fa.Data]
        ELSE LET added == [i \in DOMAIN data |-> RAdd(data[i], RMul(gamma, faOther.Data[i]))]
             IN  [err |-> "nil", caller |-> IF made THEN fa.Data ELSE added]

\* frag.go:82-84
AddFragAmount(fa, faOther) == AddGamma(fa, faOther, RInt(1))

----------------------------------------------------------------------------
(* Specification SpecAddGamma: two FragAmounts and a gamma are drawn and   *)
(* AddGamma or AddFragAmount is applied to them once.                      *)

EmptyData == [i \in {} |-> RInt(0)]

\* No data, data of three entries, and data of one entry per category.
FragAmountData ==
    {EmptyData}
    \cup [0..2 -> {RInt(0), RInt(500)}]
    \cup { [i \in 0..6 |-> RInt(0)], [i \in 0..6 |-> RInt(500)],
           [i \in 0..6 |-> RInt(100 * i)] }

Gammas == {RInt(0), Rat(1, 2), RInt(1)}

InitAddGamma ==
    /\ nodeRes = NoNode
    /\ podRes = NoPod
    /\ typicalPods = <<>>
    /\ skylinePods = <<>>
    /\ allPods = <<>>
    /\ config = NoConfig
    /\ pc = "idle"
    /\ \E data, other \in FragAmountData, gamma \in Gammas :
           loc = [fa |-> [NodeName |-> "node-1", Data |-> data],
                  faOther |-> [NodeName |-> "node-2", Data |-> other],
                  gamma |-> gamma]
    /\ ret = NoRet
    /\ NoCluster

AddGammaCall ==
    /\ pc = "idle"
    /\ pc' = "done"
    /\ LET r == AddGamma(loc.fa, loc.faOther, loc.gamma)
       IN  /\ ret' = [op |-> "AddGamma", err |-> r.err, fa |-> loc.fa, gamma |-> loc.gamma]
           /\ loc' = [loc EXCEPT !.fa.Data = r.caller]
    /\ UNCHANGED <<clusterVars, nodeRes, podRes, typicalPods, skylinePods, allPods, config>>

AddFragAmountCall ==
    /\ pc = "idle"
    /\ pc' = "done"
    /\ LET r == AddFragAmount(loc.fa, loc.faOther)
       IN  /\ ret' = [op |-> "AddFragAmount", err |-> r.err, fa |-> loc.fa, gamma |-> RInt(1)]
           /\ loc' = [loc EXCEPT !.fa.Data = r.caller]
    /\ UNCHANGED <<clusterVars, nodeRes, podRes, typicalPods, skylinePods, allPods, config>>

NextAddGamma ==
    \/ AddGammaCall
    \/ AddFragAmountCall

SpecAddGamma == InitAddGamma /\ [][NextAddGamma]_vars

(* C25: whenever fa.AddGamma(other, gamma) returns nil, the caller's        *)
(* fa.Data has, for every category i, its previous value (0 when the Data   *)
(* of the receiver was empty) plus gamma * other.Data[i]; when the lengths  *)
(* differ it returns an error and the caller's fa.Data is unchanged.        *)
C25_AddGammaMutatesReceiver ==
    ret.op \in {"AddGamma", "AddFragAmount"} =>
        LET before(i) == IF DataLen(ret.fa.Data) = 0 THEN RInt(0) ELSE ret.fa.Data[i]
            len == IF DataLen(ret.fa.Data) = 0 THEN 7 ELSE DataLen(ret.fa.Data)
        IN  IF len = DataLen(loc.faOther.Data)
            THEN /\ ret.err = "nil"
                 /\ DOMAIN loc.fa.Data = DOMAIN loc.faOther.Data
                 /\ \A i \in DOMAIN loc.faOther.Data :
                        loc.fa.Data[i] = RAdd(before(i), RMul(ret.gamma, loc.faOther.Data[i]))
            ELSE /\ ret.err # "nil"
                 /\ loc.fa.Data = ret.fa.Data

----------------------------------------------------------------------------
(* Specification SpecBellmanDepth: one scorer applies NodeGpuFragBellman   *)
(* to a node and a typical-pod list whose percentages lie in [0, 1] and    *)
(* sum to at most 1; the lists hold CPU-only pods, pods that request       *)
(* nothing, and pods that ask for GPU millis on no GPU. The recursion is   *)
(* followed down to MaxDepth nested calls; every list on which the         *)
(* recursion ends needs fewer.                                             *)

MaxDepth == 7

\* A pod that requests nothing: Sub leaves the node as it is.
NoRequestPod == [MilliCpu |-> 0, MilliGpu |-> 0, GpuNumber |-> 0, GpuType |-> ""]
\* A pod with GPU millis and a GPU count of 0: it fits wherever a GPU has the
\* millis left, and Sub deducts nothing.
NoCountSharePod == [MilliCpu |-> 0, MilliGpu |-> 500, GpuNumber |-> 0, GpuType |-> ""]

DepthNodes ==
    [MilliCpuLeft : {1000, 2000},
     MilliGpuLeftList : {<<>>, <<1000>>, <<500>>},
     GpuType : {"V100"}]

DepthTypicalPods ==
    { <<[TargetPodResource |-> NoRequestPod, Percentage |-> Rat(1, 4)],
        [TargetPodResource |-> Share500Pod, Percentage |-> Rat(3, 4)]>>,
      <<[TargetPodResource |-> CpuOnlyPod, Percentage |-> Rat(1, 4)],
        [TargetPodResource |-> TypedSharePod, Percentage |-> Rat(1, 2)],
        [TargetPodResource |-> Share500Pod, Percentage |-> Rat(1, 4)]>>,
      <<[TargetPodResource |-> OneGpuPod, Percentage |-> Rat(1, 2)],
        [TargetPodResource |-> Share500Pod, Percentage |-> Rat(1, 4)]>>,
      <<[TargetPodResource |-> Share500Pod, Percentage |-> Rat(1, 1)],
        [TargetPodResource |-> CpuOnlyPod, Percentage |-> Rat(0, 1)]>>,
      <<[TargetPodResource |-> NoCountSharePod, Percentage |-> Rat(1, 1)]>> }

DepthScorer == 1

InitBellmanDepth ==
    /\ nodeRes \in DepthNodes
    /\ podRes = NoPod
    /\ typicalPods \in DepthTypicalPods
    /\ skylinePods = <<>>
    /\ allPods = <<>>
    /\ config = NoConfig
    /\ pc = [t \in Scorers |-> "idle"]
    /\ loc = [t \in Scorers |-> <<>>]
    /\ ret = NoRet
    /\ dp = EmptyMemo
    /\ nodes = NoNodes
    /\ placed = NoPlaced
    /\ queue = <<>>

\* frag.go:259-272, for as long as fewer than MaxDepth calls are nested.
BellmanLoopToDepth(t) ==
    /\ Len(loc[t]) < MaxDepth
    /\ BellmanLoop(t)

NextBellmanDepth ==
    \/ BellmanCall(DepthScorer)
    \/ BellmanEnter(DepthScorer)
    \/ BellmanLoopToDepth(DepthScorer)
    \/ BellmanStore(DepthScorer)

\* The innermost call of a scorer is at its entry.
AtEntry(t) == pc[t] = "run" /\ loc[t][Len(loc[t])].st = "enter"

\* A call in progress goes on: nothing else runs in the scorer's goroutine.
\* BellmanEnter is enabled exactly when the innermost call is at its entry and
\* a step of it leaves the entry, so its weak fairness is []<>~AtEntry.
SpecBellmanDepth ==
    /\ InitBellmanDepth
    /\ [][NextBellmanDepth]_vars
    /\ []<>(~AtEntry(DepthScorer))
    /\ WF_vars(BellmanLoopToDepth(DepthScorer))
    /\ WF_vars(BellmanStore(DepthScorer))

\* The sum of the percentages of the typical pods.
TypicalPercentageSum ==
    RSumFun([k \in DOMAIN typicalPods |-> typicalPods[k].Percentage], DOMAIN typicalPods)

(* C27: NodeGpuFragBellman terminates for every node and every typical-pod  *)
(* list whose percentages lie in [0, 1] and sum to at most 1, CPU-only      *)
(* pods and pods whose subtraction leaves the node unchanged included: a    *)
(* call that has begun returns.                                             *)
C27_BellmanTerminates == (pc[DepthScorer] = "run") ~> (pc[DepthScorer] = "done")

(* C28: on such inputs the value NodeGpuFragBellman returns lies between 0  *)
(* and the total remaining GPU millis of the node it was called on.         *)
C28_ValueWithinRemaining ==
    ret.op = "NodeGpuFragBellman" =>
        /\ ~RLess(ret.val, RInt(0))
        /\ ~RLess(RetMilliLeftTotal, ret.val)

\* A call has summed over the typical pods, nested calls among them, and has
\* returned a value strictly between 0 and the remaining millis of its node.
C28_Witness ==
    /\ ret.op = "NodeGpuFragBellman"
    /\ ret.kind = "sum"
    /\ Flatten(ret.nodeRes) # Flatten(nodeRes)
    /\ RLess(RInt(0), ret.val)
    /\ RLess(ret.val, RetMilliLeftTotal)

\* The same for a list whose percentages sum to less than 1.
C28_WitnessPartial ==
    /\ ret.op = "NodeGpuFragBellman"
    /\ ret.kind = "sum"
    /\ RLess(TypicalPercentageSum, RInt(1))
    /\ RLess(RInt(0), ret.val)

----------------------------------------------------------------------------
(* Specification SpecFilter: a workload and a node are drawn; the skyline  *)
(* of the workload is set, then NodeGpuFragBasedOnSkyline is applied to    *)
(* the node and the skyline.                                               *)

FilterNodes ==
    [MilliCpuLeft : {1000, 2000},
     MilliGpuLeftList : {<<>>, <<500>>, <<1000>>, <<1000, 1000>>},
     GpuType : {"V100"}]

InitFilter ==
    /\ nodeRes \in FilterNodes
    /\ podRes = NoPod
    /\ typicalPods = <<>>
    /\ skylinePods = <<>>
    /\ allPods \in SkylineWorkloads
    /\ config = NoConfig
    /\ pc = "SetSkylinePods"
    /\ loc = NoLoc
    /\ ret = NoRet
    /\ NoCluster

\* core.go:112: SetSkylinePods keeps GetSkylinePods of the workload.
FilterSetSkylinePods ==
    /\ pc = "SetSkylinePods"
    /\ pc' = "estimate"
    /\ skylinePods' = GetSkylinePods(allPods)
    /\ ret' = [op |-> "GetSkylinePods", val |-> GetSkylinePods(allPods)]
    /\ UNCHANGED <<clusterVars, nodeRes, podRes, typicalPods, allPods, config, loc>>

FilterNodeGpuFrag ==
    /\ pc = "estimate"
    /\ pc' = "done"
    /\ ret' = [op |-> "NodeGpuFragBasedOnSkyline",
               val |-> NodeGpuFragBasedOnSkyline(nodeRes, skylinePods)]
    /\ UNCHANGED <<clusterVars, nodeRes, podRes, typicalPods, skylinePods, allPods, config, loc>>

NextFilter ==
    \/ FilterSetSkylinePods
    \/ FilterNodeGpuFrag

SpecFilter == InitFilter /\ [][NextFilter]_vars

(* C29: the skyline is a lossless filter: for every workload W and node,    *)
(* NodeGpuFragBasedOnSkyline(node, GetSkylinePods(W)) returns 0 exactly     *)
(* when some pod of W passes the fit test (pod.milliCpu <=                  *)
(* node.milliCpuLeft and CanNodeHostPodOnGpuMemory), workloads that mix     *)
(* gpuNumber values included.                                               *)
C29_SkylineLossless ==
    ret.op = "NodeGpuFragBasedOnSkyline" =>
        (ret.val = 0 <=> \E k \in DOMAIN allPods : SkylinePodFits(nodeRes, allPods[k]))

----------------------------------------------------------------------------
(* The comparisons of the pod ordering queues, in SpecQueue *)

\* less[a, b] is irreflexive and asymmetric on the pods of list.
IrreflexiveAsymmetric(list, less) ==
    \A i, j \in DOMAIN list :
        /\ ~less[list[i], list[i]]
        /\ ~(less[list[i], list[j]] /\ less[list[j], list[i]])

(* C30: GreedQueue.Less and TolerationQueue.Less are strict weak orderings  *)
(* on the list they sort: Less(i, i) is never true, and Less(i, j) and      *)
(* Less(j, i) are never both true, two bound pods and two pods with         *)
(* tolerations included.                                                    *)
C30_LessStrictWeakOrder ==
    /\ ret.op = "GreedQueue" =>
           IrreflexiveAsymmetric(ret.val,
               [a \in PodsOf(ret.val), b \in PodsOf(ret.val) |->
                    GreedLess(NewGreedQueue(nodes), a, b)])
    /\ ret.op = "TolerationQueue" =>
           IrreflexiveAsymmetric(ret.val,
               [a \in PodsOf(ret.val), b \in PodsOf(ret.val) |-> TolerationLess(a, b)])

====
